---- MODULE Spec2Model ----
(***************************************************************************)
(* Verification model of tuilib's input layer: the InputMatcher state      *)
(* machine (src/src/input/matcher.rs) and the ActionRouter with its        *)
(* MiddlewareChain (src/src/input/router.rs, src/src/input/middleware.rs). *)
(***************************************************************************)
EXTENDS Integers, Sequences, FiniteSets, TLC

\* ------------------------------------------------------------------------
\* Bounds of the model
\* ------------------------------------------------------------------------
MaxBindings == 2
MaxTime == 2
MaxTimeout == 1
MaxHist == 3
MaxNodes == 3
MaxMiddleware == 2
MaxTokens == 3
MaxEntries == 2
MaxErrors == 2
MaxSeqLen == 2
MaxOrder == 1
MaxTraps == 2
MaxSaved == 1
MaxBuffer == 2
MaxClock == 4
MaxDelay == 2
MaxLength == 2
MaxText == 3

\* Option<T>: None is the empty sequence, Some(x) the one-element sequence.
None == <<>>
Some(x) == <<x>>

Min(a, b) == IF a < b THEN a ELSE b

\* ------------------------------------------------------------------------
\* Key events, key bindings, key sequences, actions
\* ------------------------------------------------------------------------
\* terminput::KeyModifiers: a set of flags.
NONE == {}
CTRL == {"CTRL"}
ALT == {"ALT"}
SHIFT == {"SHIFT"}
SUPER == {"SUPER"}

\* terminput::KeyCode: Char(c), F(n) and the named keys.
Char(c) == [kind |-> "Char", c |-> c, n |-> 0]
FKey(n) == [kind |-> "F", c |-> "", n |-> n]
Named(name) == [kind |-> name, c |-> "", n |-> 0]

\* terminput::KeyEvent, reduced to the two fields InputMatcher::process reads.
KeyEvent(code, modifiers) == [code |-> code, modifiers |-> modifiers]

\* KeyBinding::with_mods: a binding holds the key code and the modifier set.
WithMods(key, modifiers) == [key |-> key, modifiers |-> modifiers]

\* KeyBinding::new: a binding without modifiers.
NewBinding(key) == WithMods(key, NONE)

EvG == KeyEvent(Char("g"), NONE)
EvX == KeyEvent(Char("x"), NONE)
EvCtrlX == KeyEvent(Char("x"), CTRL)
EvCtrlS == KeyEvent(Char("s"), CTRL)

\* The key events fed to the matcher.
KeyEvents == {EvG, EvX, EvCtrlX, EvCtrlS}

KeyG == NewBinding(Char("g"))
KeyX == NewBinding(Char("x"))
KeyCtrlX == WithMods(Char("x"), CTRL)
KeyCtrlS == WithMods(Char("s"), CTRL)
KeyQ == NewBinding(Char("q"))

\* RegisteredBinding { sequence, action }
RegisteredBinding(sequence, action) == [sequence |-> sequence, action |-> action]

\* The bindings an application may register (those of the matcher's tests,
\* a three-key chord and a two-key chord that starts inside it).
Catalog ==
    { RegisteredBinding(<<KeyG>>, "single_g"),
      RegisteredBinding(<<KeyG, KeyG>>, "double_g"),
      RegisteredBinding(<<KeyG, KeyG>>, "go_to_top"),
      RegisteredBinding(<<KeyCtrlX, KeyCtrlS>>, "save_all"),
      RegisteredBinding(<<KeyCtrlS>>, "save"),
      RegisteredBinding(<<KeyCtrlX, KeyG, KeyCtrlS>>, "abc"),
      RegisteredBinding(<<KeyG, KeyX>>, "bd") }

\* MatchResult
NoMatch == [tag |-> "NoMatch", action |-> "-"]
Pending == [tag |-> "Pending", action |-> "-"]
Matched(action) == [tag |-> "Matched", action |-> action]
NoResult == [tag |-> "-", action |-> "-"]

\* ------------------------------------------------------------------------
\* State
\* ------------------------------------------------------------------------
VARIABLES
    bindings,          \* InputMatcher.bindings: Vec<RegisteredBinding>
    pending_keys,      \* InputMatcher.pending_keys: Vec<KeyBinding>
    last_key_time,     \* InputMatcher.last_key_time: Option<Instant>
    sequence_timeout,  \* InputMatcher.sequence_timeout: Duration
    now,               \* the clock read by Instant::now()
    op,                \* the operation performed last
    call,              \* what the last process call saw and did
    hist,              \* the process calls since the matcher was last idle,
                       \* kept while they are at most MaxHist and no other
                       \* operation came between them
    middleware,        \* ActionRouter.middleware: the MiddlewareChain's Vec
    rop,               \* the router operation performed last
    dargs,             \* the arguments of the last dispatch, and what
                       \* find_focus_path returned to it
    log,               \* the middleware and handler calls of the last dispatch
    dresult,           \* the DispatchResult the last dispatch returned
    twin,              \* what the other entry point of the router returns for
                       \* the same tree, action and answers, when the path
                       \* given is the focus path of the tree
    parse_input,       \* the key string given to the parser
    parsed,            \* the Result the parser returned for it
    builder,           \* the KeyBindingsBuilder: global, contexts, errors
    ctx,               \* the ContextBuilder handed to the closure of
                       \* KeyBindingsBuilder::context while the closure runs,
                       \* with the name of the context
    registry,          \* the KeyBindings: global, contexts
    built,             \* whether the builder has been consumed into registry
    bcall,             \* the call of build, try_build, lookup or merge that
                       \* has just returned: the receiver as it was before the
                       \* call, the arguments and what was returned
    seq_builder,       \* KeySequenceBuilder.keys: Vec<KeyBinding>
    made,              \* what the last constructor of KeySequence returned,
                       \* or that it panicked
    focus_ring,        \* a FocusRing: entries: Vec<FocusEntry>, current_index:
                       \* Option<usize>
    registered,        \* the ids in focus_ring, in the order of their first
                       \* register call
    registered_last,   \* the same ids, in the order of their latest register
                       \* call
    focus_manager,     \* a FocusManager: ring, traps: Vec<FocusTrap>,
                       \* restoration_stack: Vec<FocusId>
    pushed,            \* for each trap of focus_manager, what current() returned
                       \* right before its push_trap call, or None once a call
                       \* other than navigation, push_trap and pop_trap was made
    loop_config,       \* EventLoopConfig: handle_signals, and whether run_headless
                       \* rather than run was called
    loop_pc,           \* where run / run_headless stands: not called, in select!,
                       \* in the handler, returned Ok, or failed with Err
    channel,           \* the events sent on tx and not yet received on rx
    loop_event,        \* the event handed to the handler last
    control,           \* the ControlFlow the handler returned last
    signal,            \* SIGINT / SIGTERM: not raised, raised, or received by the loop
    debouncer,         \* a Debouncer: delay: Duration, last_event: Option<Instant>
    clock,             \* the clock read by Instant::now() in should_process
    last_call,         \* when should_process was called last since the debouncer
                       \* was created or reset
    dcall,             \* the last should_process call: when it was made, when the
                       \* call before it was made, the delay, and what it returned
    text_input,        \* a TextInput: text (as its chars), cursor (a byte index),
                       \* selection: Option<Range<usize>>, max_length: Option<usize>
    taction            \* the tag of the TextInputAction the last update returned

matcherVars == <<bindings, pending_keys, last_key_time, sequence_timeout, now,
                 op, call, hist>>

routerVars == <<middleware, rop, dargs, log, dresult, twin>>

parserVars == <<parse_input, parsed>>

registryVars == <<builder, ctx, registry, built, bcall>>

sequenceVars == <<seq_builder, made>>

ringVars == <<focus_ring, registered, registered_last>>

managerVars == <<focus_manager, pushed>>

loopVars == <<loop_config, loop_pc, channel, loop_event, control, signal>>

debouncerVars == <<debouncer, clock, last_call, dcall>>

inputVars == <<text_input, taction>>

vars == <<matcherVars, routerVars, parserVars, registryVars, sequenceVars, ringVars, managerVars, loopVars, debouncerVars, inputVars>>

\* What the operations of one component leave alone.
otherThanMatcher == <<routerVars, parserVars, registryVars, sequenceVars,
                      ringVars, managerVars, loopVars, debouncerVars,
                      inputVars>>
otherThanRouter == <<matcherVars, parserVars, registryVars, sequenceVars,
                     ringVars, managerVars, loopVars, debouncerVars,
                     inputVars>>
otherThanParser == <<matcherVars, routerVars, registryVars, sequenceVars,
                     ringVars, managerVars, loopVars, debouncerVars,
                     inputVars>>
otherThanRegistry == <<matcherVars, routerVars, parserVars, sequenceVars,
                       ringVars, managerVars, loopVars, debouncerVars,
                       inputVars>>
otherThanSequence == <<matcherVars, routerVars, parserVars, registryVars,
                       ringVars, managerVars, loopVars, debouncerVars,
                       inputVars>>
otherThanRing == <<matcherVars, routerVars, parserVars, registryVars,
                   sequenceVars, managerVars, loopVars, debouncerVars,
                   inputVars>>
otherThanManager == <<matcherVars, routerVars, parserVars, registryVars,
                      sequenceVars, ringVars, loopVars, debouncerVars,
                      inputVars>>
otherThanLoop == <<matcherVars, routerVars, parserVars, registryVars,
                   sequenceVars, ringVars, managerVars, debouncerVars,
                   inputVars>>
otherThanDebouncer == <<matcherVars, routerVars, parserVars, registryVars,
                        sequenceVars, ringVars, managerVars, loopVars,
                        inputVars>>
otherThanInput == <<matcherVars, routerVars, parserVars, registryVars,
                    sequenceVars, ringVars, managerVars, loopVars,
                    debouncerVars>>

\* ------------------------------------------------------------------------
\* Actions, handlers, middleware results
\* ------------------------------------------------------------------------
\* The actions dispatched through the router.
Actions == {"click", "test"}

\* HandleResult
HandleResults == {"Continue", "Handled", "Ignored"}

\* HandleResult::should_stop
ShouldStop(r) == r = "Handled"

\* HandleResult::is_handled
IsHandled(r) == r = "Handled"

\* Phase
Phases == {"Capture", "Bubble"}

\* MiddlewareResult
MwStop == [tag |-> "Stop", action |-> None]
MwContinue(a) == [tag |-> "Continue", action |-> a]
MiddlewareResults == {MwStop, MwContinue(None)} \cup {MwContinue(Some(a)) : a \in Actions}

\* A node of the handler tree: what id(), is_focused() and children() return.
\* The id of a node is its position: the child indices from the root.
Handler(id, focused, children) ==
    [id |-> id, focused |-> focused, children |-> children]

\* The handler trees given to the router: every ordered tree of at most
\* MaxNodes handlers, any set of them reporting focus. Forests(id, i, m) is
\* the lists of children, m handlers in all, the first at index i of node id.
RECURSIVE TreesWith(_, _)
RECURSIVE Forests(_, _, _)
Forests(id, i, m) ==
    IF m = 0 THEN {<<>>}
    ELSE UNION { { <<c>> \o rest : c \in TreesWith(Append(id, i), k),
                                   rest \in Forests(id, i + 1, m - k) } :
                 k \in 1..m }
TreesWith(id, n) ==
    { Handler(id, f, cs) : f \in BOOLEAN, cs \in Forests(id, 0, n - 1) }

Trees == UNION { TreesWith(<<>>, n) : n \in 1..MaxNodes }

\* The number of nodes of a tree that report focus.
RECURSIVE FocusedCount(_)
RECURSIVE FocusedInChildren(_, _)
FocusedInChildren(children, i) ==
    IF i > Len(children) THEN 0
    ELSE FocusedCount(children[i]) + FocusedInChildren(children, i + 1)
FocusedCount(handler) ==
    (IF handler.focused THEN 1 ELSE 0) + FocusedInChildren(handler.children, 1)

\* The paths that name a node of the tree.
RECURSIVE ValidPaths(_)
ValidPaths(handler) ==
    {<<>>} \cup UNION { { <<i - 1>> \o p : p \in ValidPaths(handler.children[i]) } :
                        i \in 1..Len(handler.children) }

\* The node a valid path names.
RECURSIVE NodeAt(_, _)
NodeAt(handler, path) ==
    IF path = <<>> THEN handler
    ELSE NodeAt(handler.children[Head(path) + 1], Tail(path))

\* The paths given to dispatch_to_path: those that name a node, and those
\* that leave the tree at their last index or at the one before it.
PathsInto(handler) ==
    LET valid == ValidPaths(handler)
        stale == { Append(p, Len(NodeAt(handler, p).children)) : p \in valid }
    IN  valid \cup stale \cup { Append(p, 0) : p \in stale }

\* What the handlers answer during one dispatch: the answer of the node at
\* each depth in each phase, down to depth n.
\* At most two handlers claim the action; the others all answer Continue, all
\* answer Ignored, or answer Continue in Capture and Ignored in Bubble.
Positions(n) == Phases \X (0..n)
PassStyles == { [p \in Phases |-> "Continue"], [p \in Phases |-> "Ignored"],
                [p \in Phases |-> IF p = "Capture" THEN "Continue" ELSE "Ignored"] }
HandledSets(n) == {{}} \cup { {a, b} : a \in Positions(n), b \in Positions(n) }
Responses(n) ==
    { [pd \in Positions(n) |-> IF pd \in handled THEN "Handled" ELSE pass[pd[1]]] :
        handled \in HandledSets(n), pass \in PassStyles }

\* One entry of the call log.
HandleCall(id, phase, action, result) ==
    [kind |-> "handle", mw |-> 0, id |-> id, phase |-> phase,
     action |-> action, result |-> result, before |-> MwStop]
BeforeCall(m, action, result) ==
    [kind |-> "before", mw |-> m, id |-> <<>>, phase |-> "-",
     action |-> action, result |-> "-", before |-> result]
AfterCall(m, action, result) ==
    [kind |-> "after", mw |-> m, id |-> <<>>, phase |-> "-",
     action |-> action, result |-> result, before |-> MwStop]

\* ------------------------------------------------------------------------
\* ActionHandler::find_focus_path
\* ------------------------------------------------------------------------
RECURSIVE FindFocusPath(_)
RECURSIVE FindInChildren(_, _)
FindInChildren(children, i) ==
    IF i > Len(children) THEN None
    ELSE LET path == FindFocusPath(children[i])
         IN  IF path /= None THEN Some(<<i - 1>> \o path[1])
             ELSE FindInChildren(children, i + 1)
\* Variant of find_focus_path: the children are searched before the node.
FindFocusPathChildrenFirst(handler) ==
    LET below == FindInChildren(handler.children, 1)
    IN  IF below /= None THEN below
        ELSE IF handler.focused THEN Some(<<>>) ELSE None

FindFocusPath(handler) ==
    IF handler.focused THEN Some(<<>>)
    ELSE FindInChildren(handler.children, 1)

\* Option::unwrap_or_default on the focus path.
UnwrapOrDefault(path) == IF path = None THEN <<>> ELSE path[1]

\* ------------------------------------------------------------------------
\* DispatchResult
\* ------------------------------------------------------------------------
\* DispatchResult::not_handled
NotHandled ==
    [result |-> "Ignored", handled_by |-> None, handled_in |-> None,
     propagation_stopped |-> FALSE]

\* DispatchResult::handled
HandledBy(by, phase) ==
    [result |-> "Handled", handled_by |-> Some(by), handled_in |-> Some(phase),
     propagation_stopped |-> TRUE]

\* DispatchResult::was_handled
WasHandled(r) == IsHandled(r.result)

\* ------------------------------------------------------------------------
\* MiddlewareChain
\* ------------------------------------------------------------------------
\* Variant of process_before: a transformed action is not passed on.
RECURSIVE ProcessBeforeUntransformed(_, _, _, _, _)
ProcessBeforeUntransformed(chain, i, action, mresp, calls) ==
    IF i > Len(chain) THEN [action |-> Some(action), log |-> calls]
    ELSE LET r == mresp[chain[i]]
             seen == Append(calls, BeforeCall(chain[i], action, r))
         IN  IF r.tag = "Stop" THEN [action |-> None, log |-> seen]
             ELSE ProcessBeforeUntransformed(chain, i + 1, action, mresp, seen)

\* MiddlewareChain::process_before, from middleware i on: the action that
\* reaches the handlers (None when a middleware stopped it) and the calls made.
RECURSIVE ProcessBefore(_, _, _, _, _)
ProcessBefore(chain, i, action, mresp, calls) ==
    IF i > Len(chain) THEN [action |-> Some(action), log |-> calls]
    ELSE LET r == mresp[chain[i]]
             seen == Append(calls, BeforeCall(chain[i], action, r))
         IN  IF r.tag = "Stop" THEN [action |-> None, log |-> seen]
             ELSE IF r.action /= None
                  THEN ProcessBefore(chain, i + 1, r.action[1], mresp, seen)
                  ELSE ProcessBefore(chain, i + 1, action, mresp, seen)

\* Variant of process_after: the chain is walked in registration order.
RECURSIVE ProcessAfterForward(_, _, _, _, _)
ProcessAfterForward(chain, i, action, result, calls) ==
    IF i < 1 THEN calls
    ELSE ProcessAfterForward(chain, i - 1, action, result,
             Append(calls, AfterCall(chain[Len(chain) - i + 1], action, result)))

\* MiddlewareChain::process_after, from middleware i down to the first.
RECURSIVE ProcessAfter(_, _, _, _, _)
ProcessAfter(chain, i, action, result, calls) ==
    IF i < 1 THEN calls
    ELSE ProcessAfter(chain, i - 1, action, result,
                      Append(calls, AfterCall(chain[i], action, result)))

\* ------------------------------------------------------------------------
\* ActionRouter
\* ------------------------------------------------------------------------
\* Variant of capture_phase: an index past the last child is clamped to it.
RECURSIVE CapturePhaseClamped(_, _, _, _, _, _)
CapturePhaseClamped(handler, action, focus_path, depth, resp, calls) ==
    LET result == IF <<"Capture", depth>> \in DOMAIN resp
                  THEN resp[<<"Capture", depth>>] ELSE "Continue"
        seen == Append(calls, HandleCall(handler.id, "Capture", action, result))
    IN  IF ShouldStop(result)
        THEN [result |-> Some(HandledBy(handler.id, "Capture")), log |-> seen]
        ELSE IF depth < Len(focus_path) /\ Len(handler.children) > 0
             THEN CapturePhaseClamped(
                      handler.children[Min(focus_path[depth + 1] + 1,
                                           Len(handler.children))],
                      action, focus_path, depth + 1, resp, seen)
             ELSE [result |-> None, log |-> seen]

\* ActionRouter::capture_phase: the result (None when nobody handled the
\* action) and the calls made.
RECURSIVE CapturePhase(_, _, _, _, _, _)
CapturePhase(handler, action, focus_path, depth, resp, calls) ==
    LET result == resp[<<"Capture", depth>>]
        seen == Append(calls, HandleCall(handler.id, "Capture", action, result))
    IN  IF ShouldStop(result)
        THEN [result |-> Some(HandledBy(handler.id, "Capture")), log |-> seen]
        ELSE IF depth < Len(focus_path)
                /\ focus_path[depth + 1] < Len(handler.children)
             THEN CapturePhase(handler.children[focus_path[depth + 1] + 1],
                               action, focus_path, depth + 1, resp, seen)
             ELSE [result |-> None, log |-> seen]

\* Variant of the node's bubble step: an action nobody handled is reported
\* with the result the node returned.
BubbleHereRawResult(handler, action, depth, resp, calls) ==
    LET result == resp[<<"Bubble", depth>>]
        seen == Append(calls, HandleCall(handler.id, "Bubble", action, result))
    IN  IF ShouldStop(result)
        THEN [result |-> HandledBy(handler.id, "Bubble"), log |-> seen]
        ELSE [result |-> [NotHandled EXCEPT !.result = result], log |-> seen]

\* The node's own step of the bubble phase, after its child returned.
BubbleHere(handler, action, depth, resp, calls) ==
    LET result == resp[<<"Bubble", depth>>]
        seen == Append(calls, HandleCall(handler.id, "Bubble", action, result))
    IN  IF ShouldStop(result)
        THEN [result |-> HandledBy(handler.id, "Bubble"), log |-> seen]
        ELSE [result |-> NotHandled, log |-> seen]

\* Variant of bubble_phase: the child's result does not end the unwinding.
RECURSIVE BubblePhaseUnstopped(_, _, _, _, _, _)
BubblePhaseUnstopped(handler, action, focus_path, depth, resp, calls) ==
    IF depth < Len(focus_path) /\ focus_path[depth + 1] < Len(handler.children)
    THEN LET below == BubblePhaseUnstopped(
                          handler.children[focus_path[depth + 1] + 1],
                          action, focus_path, depth + 1, resp, calls)
             here == BubbleHere(handler, action, depth, resp, below.log)
         IN  IF WasHandled(below.result)
             THEN [result |-> below.result, log |-> here.log]
             ELSE here
    ELSE BubbleHere(handler, action, depth, resp, calls)

\* ActionRouter::bubble_phase
RECURSIVE BubblePhase(_, _, _, _, _, _)
BubblePhase(handler, action, focus_path, depth, resp, calls) ==
    IF depth < Len(focus_path) /\ focus_path[depth + 1] < Len(handler.children)
    THEN LET below == BubblePhase(handler.children[focus_path[depth + 1] + 1],
                                  action, focus_path, depth + 1, resp, calls)
         IN  IF WasHandled(below.result) THEN below
             ELSE BubbleHere(handler, action, depth, resp, below.log)
    ELSE BubbleHere(handler, action, depth, resp, calls)

\* Variant of dispatch_internal: the bubble phase runs after a capture too.
DispatchInternalBubbleAnyway(root, action, focus_path, resp, calls) ==
    LET captured == CapturePhase(root, action, focus_path, 0, resp, calls)
        bubbled == BubblePhase(root, action, focus_path, 0, resp, captured.log)
    IN  IF captured.result /= None
        THEN [result |-> captured.result[1], log |-> bubbled.log]
        ELSE bubbled

\* ActionRouter::dispatch_internal
DispatchInternal(root, action, focus_path, resp, calls) ==
    LET captured == CapturePhase(root, action, focus_path, 0, resp, calls)
    IN  IF captured.result /= None
        THEN [result |-> captured.result[1], log |-> captured.log]
        ELSE BubblePhase(root, action, focus_path, 0, resp, captured.log)

\* Variant of the dispatch body: the after-chain runs for a stopped action.
DispatchOnAfterStop(chain, root, action, path, mresp, resp) ==
    LET passed == ProcessBefore(chain, 1, action, mresp, <<>>)
    IN  IF passed.action = None
        THEN [result |-> NotHandled,
              log |-> ProcessAfter(chain, Len(chain), action,
                                   NotHandled.result, passed.log)]
        ELSE LET r == DispatchInternal(root, passed.action[1], path, resp, passed.log)
             IN  [result |-> r.result,
                  log |-> ProcessAfter(chain, Len(chain), passed.action[1],
                                       r.result.result, r.log)]

\* The body of dispatch, once the focus path is known.
DispatchOn(chain, root, action, path, mresp, resp) ==
    LET passed == ProcessBefore(chain, 1, action, mresp, <<>>)
    IN  IF passed.action = None
        THEN [result |-> NotHandled, log |-> passed.log]
        ELSE LET r == DispatchInternal(root, passed.action[1], path, resp, passed.log)
             IN  [result |-> r.result,
                  log |-> ProcessAfter(chain, Len(chain), passed.action[1],
                                       r.result.result, r.log)]

\* Variant of dispatch: the action is sent down the first child at every
\* level instead of down the focus path.
DispatchCallFirstChild(chain, root, action, mresp, resp) ==
    LET focus_path == UnwrapOrDefault(FindFocusPath(root))
    IN  DispatchOn(chain, root, action, [i \in 1..Len(focus_path) |-> 0],
                   mresp, resp)

\* ActionRouter::dispatch
DispatchCall(chain, root, action, mresp, resp) ==
    DispatchOn(chain, root, action, UnwrapOrDefault(FindFocusPath(root)), mresp, resp)

\* Variant of dispatch_to_path: the middleware chain is bypassed.
DispatchToPathUnfiltered(chain, root, action, path, mresp, resp) ==
    DispatchInternal(root, action, path, resp, <<>>)

\* ActionRouter::dispatch_to_path
DispatchToPathCall(chain, root, action, path, mresp, resp) ==
    LET passed == ProcessBefore(chain, 1, action, mresp, <<>>)
    IN  IF passed.action = None
        THEN [result |-> NotHandled, log |-> passed.log]
        ELSE LET r == DispatchInternal(root, passed.action[1], path, resp, passed.log)
             IN  [result |-> r.result,
                  log |-> ProcessAfter(chain, Len(chain), passed.action[1],
                                       r.result.result, r.log)]

\* The number of leading indices of a path that name a child in the tree.
RECURSIVE ValidDepth(_, _)
ValidDepth(handler, path) ==
    IF path = <<>> THEN 0
    ELSE IF Head(path) < Len(handler.children)
         THEN 1 + ValidDepth(handler.children[Head(path) + 1], Tail(path))
         ELSE 0

NoArgs == [action |-> "-", path |-> <<>>, valid |-> 0,
           root |-> Handler(<<>>, FALSE, <<>>), found |-> None]
NoDispatch == [result |-> "-", handled_by |-> None, handled_in |-> None,
               propagation_stopped |-> FALSE]
NoTwin == [same |-> FALSE, result |-> NoDispatch, log |-> <<>>]

RouterInit ==
    /\ middleware = <<>>
    /\ rop = "idle"
    /\ dargs = NoArgs
    /\ log = <<>>
    /\ dresult = NoDispatch
    /\ twin = NoTwin

\* ActionRouter::add_middleware
AddMiddleware ==
    /\ Len(middleware) < MaxMiddleware
    /\ middleware' = Append(middleware, Len(middleware) + 1)
    /\ rop' = "idle"
    /\ dargs' = NoArgs
    /\ log' = <<>>
    /\ dresult' = NoDispatch
    /\ twin' = NoTwin
    /\ UNCHANGED otherThanRouter

\* ActionRouter::dispatch
DispatchWith(root, action, mresp, resp) ==
    LET r == DispatchCall(middleware, root, action, mresp, resp)
        focus_path == UnwrapOrDefault(FindFocusPath(root))
    IN  /\ rop' = "dispatch"
        /\ dargs' = [action |-> action, path |-> focus_path,
                     valid |-> ValidDepth(root, focus_path),
                     root |-> root, found |-> FindFocusPath(root)]
        /\ log' = r.log
        /\ dresult' = r.result
        /\ twin' = LET t == DispatchToPathCall(middleware, root, action,
                                               focus_path, mresp, resp)
                    IN  [same |-> TRUE, result |-> t.result, log |-> t.log]
        /\ UNCHANGED middleware
        /\ UNCHANGED otherThanRouter

\* ActionRouter::dispatch_to_path
DispatchToPathWith(root, action, path, mresp, resp) ==
    LET r == DispatchToPathCall(middleware, root, action, path, mresp, resp)
    IN  /\ rop' = "dispatch_to_path"
        /\ dargs' = [action |-> action, path |-> path,
                     valid |-> ValidDepth(root, path),
                     root |-> root, found |-> None]
        /\ log' = r.log
        /\ dresult' = r.result
        /\ twin' = IF path = UnwrapOrDefault(FindFocusPath(root))
                    THEN LET t == DispatchCall(middleware, root, action, mresp, resp)
                         IN  [same |-> TRUE, result |-> t.result, log |-> t.log]
                    ELSE NoTwin
        /\ UNCHANGED middleware
        /\ UNCHANGED otherThanRouter

\* The caller takes the DispatchResult; the next dispatch starts a new log.
TakeResult ==
    /\ dresult /= NoDispatch
    /\ rop' = "idle"
    /\ dargs' = NoArgs
    /\ log' = <<>>
    /\ dresult' = NoDispatch
    /\ twin' = NoTwin
    /\ UNCHANGED middleware
    /\ UNCHANGED otherThanRouter

\* The trees without a focused node: dispatch_to_path never reads is_focused.
UnfocusedTrees == { t \in Trees : FocusedCount(t) = 0 }

\* The trees, actions and answers a dispatch is given.
Dispatch ==
    /\ dresult = NoDispatch
    /\ \E root \in Trees, action \in Actions,
          mresp \in [1..Len(middleware) -> MiddlewareResults] :
            \E resp \in Responses(Len(UnwrapOrDefault(FindFocusPath(root)))) :
                DispatchWith(root, action, mresp, resp)

DispatchToPath ==
    /\ dresult = NoDispatch
    /\ \E root \in UnfocusedTrees, action \in Actions,
          mresp \in [1..Len(middleware) -> MiddlewareResults] :
            \E path \in PathsInto(root) :
                \E resp \in Responses(ValidDepth(root, path)) :
                    DispatchToPathWith(root, action, path, mresp, resp)

RouterNext ==
    \/ AddMiddleware
    \/ Dispatch
    \/ DispatchToPath
    \/ TakeResult

\* ------------------------------------------------------------------------
\* Key strings and the parser (src/src/input/parser.rs)
\* ------------------------------------------------------------------------
\* A string is the sequence of its characters.
Whitespace == {" "}
Separators == {"+", "-"}

UpperCase == <<"A", "B", "C", "D", "E", "F", "G", "H", "I", "J", "K", "L", "M",
               "N", "O", "P", "Q", "R", "S", "T", "U", "V", "W", "X", "Y", "Z">>
LowerCase == <<"a", "b", "c", "d", "e", "f", "g", "h", "i", "j", "k", "l", "m",
               "n", "o", "p", "q", "r", "s", "t", "u", "v", "w", "x", "y", "z">>
Digits == <<"0", "1", "2", "3", "4", "5", "6", "7", "8", "9">>

\* char::to_lowercase on the characters of the model.
LowerChar(c) ==
    IF \E i \in 1..Len(UpperCase) : UpperCase[i] = c
    THEN LowerCase[CHOOSE i \in 1..Len(UpperCase) : UpperCase[i] = c]
    ELSE c

\* str::to_lowercase
ToLowercase(s) == [i \in 1..Len(s) |-> LowerChar(s[i])]

\* char::is_ascii_digit
IsAsciiDigit(c) == \E i \in 1..Len(Digits) : Digits[i] = c
DigitValue(c) == (CHOOSE i \in 1..Len(Digits) : Digits[i] = c) - 1

\* str::trim
RECURSIVE TrimStart(_)
TrimStart(s) ==
    IF s /= <<>> /\ Head(s) \in Whitespace THEN TrimStart(Tail(s)) ELSE s
RECURSIVE TrimEnd(_)
TrimEnd(s) ==
    IF s /= <<>> /\ s[Len(s)] \in Whitespace
    THEN TrimEnd(SubSeq(s, 1, Len(s) - 1)) ELSE s
Trim(s) == TrimEnd(TrimStart(s))

\* str::split on a set of characters: the parts between the separators,
\* empty parts included.
RECURSIVE Split(_, _)
Split(s, seps) ==
    IF \E i \in 1..Len(s) : s[i] \in seps
    THEN LET i == CHOOSE k \in 1..Len(s) :
                      s[k] \in seps /\ \A j \in 1..(k - 1) : s[j] \notin seps
         IN  <<SubSeq(s, 1, i - 1)>> \o Split(SubSeq(s, i + 1, Len(s)), seps)
    ELSE <<s>>

\* str::split_whitespace: the parts between runs of whitespace, none empty.
IsNonEmpty(s) == s /= <<>>
SplitWhitespace(s) == SelectSeq(Split(s, Whitespace), IsNonEmpty)

\* str::parse::<u8> on a string of digits: None when the value overflows.
RECURSIVE ParseNumber(_, _)
ParseNumber(s, acc) ==
    IF s = <<>> THEN Some(acc)
    ELSE LET next == acc * 10 + DigitValue(Head(s))
         IN  IF next > 255 THEN None ELSE ParseNumber(Tail(s), next)

\* parse_modifier
ParseModifier(s) ==
    LET l == ToLowercase(s)
    IN  IF l \in {<<"c", "t", "r", "l">>, <<"c", "o", "n", "t", "r", "o", "l">>} THEN Some(CTRL)
        ELSE IF l \in {<<"a", "l", "t">>, <<"m", "e", "t", "a">>, <<"o", "p", "t", "i", "o", "n">>} THEN Some(ALT)
        ELSE IF l = <<"s", "h", "i", "f", "t">> THEN Some(SHIFT)
        ELSE IF l \in {<<"s", "u", "p", "e", "r">>, <<"w", "i", "n">>, <<"c", "m", "d">>, <<"c", "o", "m", "m", "a", "n", "d">>} THEN Some(SUPER)
        ELSE None

\* The names of the named keys.
NamedKeys ==
    <<[code |-> Named("Enter"), names |-> {<<"e", "n", "t", "e", "r">>, <<"r", "e", "t", "u", "r", "n">>, <<"c", "r">>}],
      [code |-> Named("Esc"), names |-> {<<"e", "s", "c", "a", "p", "e">>, <<"e", "s", "c">>}],
      [code |-> Char(" "), names |-> {<<"s", "p", "a", "c", "e">>, <<"s", "p", "c">>}],
      [code |-> Named("Tab"), names |-> {<<"t", "a", "b">>}],
      [code |-> Named("Backspace"), names |-> {<<"b", "a", "c", "k", "s", "p", "a", "c", "e">>, <<"b", "s">>}],
      [code |-> Named("Delete"), names |-> {<<"d", "e", "l", "e", "t", "e">>, <<"d", "e", "l">>}],
      [code |-> Named("Insert"), names |-> {<<"i", "n", "s", "e", "r", "t">>, <<"i", "n", "s">>}],
      [code |-> Named("Up"), names |-> {<<"u", "p">>}],
      [code |-> Named("Down"), names |-> {<<"d", "o", "w", "n">>}],
      [code |-> Named("Left"), names |-> {<<"l", "e", "f", "t">>}],
      [code |-> Named("Right"), names |-> {<<"r", "i", "g", "h", "t">>}],
      [code |-> Named("Home"), names |-> {<<"h", "o", "m", "e">>}],
      [code |-> Named("End"), names |-> {<<"e", "n", "d">>}],
      [code |-> Named("PageUp"), names |-> {<<"p", "a", "g", "e", "u", "p">>, <<"p", "g", "u", "p">>}],
      [code |-> Named("PageDown"), names |-> {<<"p", "a", "g", "e", "d", "o", "w", "n">>, <<"p", "g", "d", "n">>, <<"p", "g", "d", "o", "w", "n">>}]>>

\* The named keys of parse_key_code.
ParseNamedKey(s) ==
    LET l == ToLowercase(s)
    IN  IF \E i \in 1..Len(NamedKeys) : l \in NamedKeys[i].names
        THEN Some(NamedKeys[CHOOSE i \in 1..Len(NamedKeys) : l \in NamedKeys[i].names].code)
        ELSE None

\* parse_key_code
ParseKeyCode(s) ==
    IF Len(s) = 1 THEN Some(Char(s[1]))
    ELSE LET rest == Tail(s)
             number == ParseNumber(rest, 0)
         IN  IF /\ s /= <<>>
                /\ Head(s) \in {"F", "f"}
                /\ Len(s) >= 2
                /\ \A i \in 1..Len(rest) : IsAsciiDigit(rest[i])
                /\ number /= None
                /\ number[1] \in 1..24
             THEN Some(FKey(number[1]))
             ELSE ParseNamedKey(s)

\* ParseKeyError and Result<KeyBinding, ParseKeyError>
EmptyInputError == [input |-> <<>>, kind |-> "EmptyInput", token |-> <<>>]
InvalidKeyError(input, key) == [input |-> input, kind |-> "InvalidKey", token |-> key]
InvalidModifierError(input, modifier) ==
    [input |-> input, kind |-> "InvalidModifier", token |-> modifier]
NoKeySpecifiedError(input) == [input |-> input, kind |-> "NoKeySpecified", token |-> <<>>]
Ok(value) == [ok |-> TRUE, value |-> <<value>>, error |-> <<>>]
Err(error) == [ok |-> FALSE, value |-> <<>>, error |-> <<error>>]

\* The loop of parse_key_binding over the parts, from part i on.
RECURSIVE ParseParts(_, _, _, _, _)
ParseParts(parts, i, modifiers, key_code, input) ==
    IF i > Len(parts)
    THEN IF key_code = None THEN Err(NoKeySpecifiedError(input))
         ELSE Ok(WithMods(key_code[1], modifiers))
    ELSE LET part == Trim(parts[i])
             is_last == i = Len(parts)
             modifier == ParseModifier(part)
             code == ParseKeyCode(part)
         IN  IF part = <<>> THEN ParseParts(parts, i + 1, modifiers, key_code, input)
             ELSE IF modifier /= None
                  THEN ParseParts(parts, i + 1, modifiers \cup modifier[1], key_code, input)
             ELSE IF code /= None
                  THEN IF key_code /= None
                       THEN Err(InvalidModifierError(input, part))
                       ELSE ParseParts(parts, i + 1, modifiers, code, input)
             ELSE IF is_last THEN Err(InvalidKeyError(input, part))
             ELSE Err(InvalidModifierError(input, part))

\* parse_key_binding
ParseKeyBinding(raw) ==
    LET input == Trim(raw)
    IN  IF input = <<>> THEN Err(EmptyInputError)
        ELSE ParseParts(Split(input, Separators), 1, NONE, None, input)

\* The loop of parse_key_sequence over the parts: the first error ends it.
RECURSIVE ParseBindings(_, _, _)
ParseBindings(parts, i, bindings_so_far) ==
    IF i > Len(parts)
    THEN IF bindings_so_far = <<>> THEN Err(EmptyInputError) ELSE Ok(bindings_so_far)
    ELSE LET binding == ParseKeyBinding(parts[i])
         IN  IF binding.ok
             THEN ParseBindings(parts, i + 1, Append(bindings_so_far, binding.value[1]))
             ELSE binding

\* parse_key_sequence
ParseKeySequence(raw) ==
    LET input == Trim(raw)
    IN  IF input = <<>> THEN Err(EmptyInputError)
        ELSE ParseBindings(SplitWhitespace(input), 1, <<>>)

\* ------------------------------------------------------------------------
\* The parser applied to key strings
\* ------------------------------------------------------------------------
\* The tokens the key strings are made of: modifier names and key names in
\* several spellings, an out-of-range function key, an unknown name and the
\* empty token.
Tokens ==
    {<<"C", "t", "r", "l">>,
     <<"S", "H", "I", "F", "T">>,
     <<"a", "l", "t">>,
     <<"s">>,
     <<"F", "1", "2">>,
     <<"F", "2", "5">>,
     <<"e", "s", "c">>,
     <<"f", "o", "o">>,
     <<>>}

\* The key strings of up to n tokens, joined by + or -.
RECURSIVE Joined(_)
Joined(n) ==
    IF n = 1 THEN Tokens
    ELSE { head \o <<sep>> \o t : head \in Joined(n - 1), sep \in Separators, t \in Tokens }

\* The key strings of up to max tokens given to parse_key_binding, bare or
\* padded with blanks.
BindingStrings(max) ==
    LET bare == UNION { Joined(n) : n \in 1..max }
    IN  bare \cup { <<" ">> \o b \o <<" ">> : b \in bare }

NoParse == [ok |-> FALSE, value |-> <<>>, error |-> <<>>]

ParserInit ==
    /\ parse_input = <<>>
    /\ parsed = NoParse

\* parse_key_binding called on a key string.
CallParseKeyBinding ==
    /\ parsed = NoParse
    /\ \E raw \in BindingStrings(MaxTokens) :
           /\ parse_input' = raw
           /\ parsed' = ParseKeyBinding(raw)
    /\ UNCHANGED otherThanParser

\* The caller takes the Result.
TakeParsed ==
    /\ parsed /= NoParse
    /\ parse_input' = <<>>
    /\ parsed' = NoParse
    /\ UNCHANGED otherThanParser

ParserNext ==
    \/ CallParseKeyBinding
    \/ TakeParsed

\* ------------------------------------------------------------------------
\* KeyBindings and its builders: pure parts
\* ------------------------------------------------------------------------
\* HashMap::new()
EmptyMap == [k \in {} |-> "-"]

\* HashMap::insert: the entry of key k is replaced or added.
Insert(map, k, v) ==
    [x \in DOMAIN map \cup {k} |-> IF x = k THEN v ELSE map[x]]

\* HashMap::extend: every entry of other is inserted.
Extend(map, other) ==
    [x \in DOMAIN map \cup DOMAIN other |->
        IF x \in DOMAIN other THEN other[x] ELSE map[x]]

\* HashMap::get
Get(map, k) == IF k \in DOMAIN map THEN Some(map[k]) ELSE None

\* KeyBindings::new
NewKeyBindings == [global |-> EmptyMap, contexts |-> EmptyMap]

\* KeyBindings::lookup, with the global map consulted first.
LookupGlobalFirst(self, context, sequence) ==
    LET in_context ==
            IF context /= None /\ context[1] \in DOMAIN self.contexts
            THEN Get(self.contexts[context[1]], sequence)
            ELSE None
    IN  IF Get(self.global, sequence) /= None THEN Get(self.global, sequence)
        ELSE in_context

\* KeyBindings::lookup
Lookup(self, context, sequence) ==
    LET in_context ==
            IF context /= None /\ context[1] \in DOMAIN self.contexts
            THEN Get(self.contexts[context[1]], sequence)
            ELSE None
    IN  IF in_context /= None THEN in_context
        ELSE Get(self.global, sequence)

\* The sum of the sizes of the context maps named.
RECURSIVE ContextCount(_, _)
ContextCount(contexts, names) ==
    IF names = {} THEN 0
    ELSE LET c == CHOOSE n \in names : TRUE
         IN  Cardinality(DOMAIN contexts[c]) + ContextCount(contexts, names \ {c})

\* KeyBindings::total_count
TotalCount(self) ==
    Cardinality(DOMAIN self.global) + ContextCount(self.contexts, DOMAIN self.contexts)

\* KeyBindings::merge, with replacement of a context of the same name
\* instead of the extension of its map.
MergeReplacingContexts(self, other) ==
    [global |-> Extend(self.global, other.global),
     contexts |-> Extend(self.contexts, other.contexts)]

\* KeyBindings::merge
Merge(self, other) ==
    [global |-> Extend(self.global, other.global),
     contexts |->
        [c \in DOMAIN self.contexts \cup DOMAIN other.contexts |->
            IF c \in DOMAIN other.contexts
            THEN Extend(IF c \in DOMAIN self.contexts
                        THEN self.contexts[c] ELSE EmptyMap,
                        other.contexts[c])
            ELSE self.contexts[c]]]

\* The key strings given to the builders: a key, a two-key sequence, an
\* unknown modifier and the empty string.
KeyStrings ==
    {<<"q">>,
     <<"c", "t", "r", "l", "-", "x", " ", " ", "c", "t", "r", "l", "-", "s">>,
     <<"F", "o", "o", "+", "q">>,
     <<>>}

\* parse_key_sequence on each of these key strings.
ParsedKeyStrings == [k \in KeyStrings |-> ParseKeySequence(k)]

\* The key strings that parse.
ValidKeyStrings == { k \in KeyStrings : ParsedKeyStrings[k].ok }

\* KeyBindingsBuilder::new
NewBuilder == [global |-> EmptyMap, contexts |-> EmptyMap, errors |-> <<>>]

\* ContextBuilder::new
NewContextBuilder == [bindings |-> EmptyMap, errors |-> <<>>]

\* KeyBindingsBuilder::bind
BuilderBind(self, action, keys) ==
    LET r == ParsedKeyStrings[keys]
    IN  IF r.ok
        THEN [self EXCEPT !.global = Insert(@, r.value[1], action)]
        ELSE [self EXCEPT !.errors = Append(@, r.error[1])]

\* KeyBindingsBuilder::bind_multi, from the i-th key string on.
RECURSIVE BuilderBindMulti(_, _, _, _)
BuilderBindMulti(self, action, keys, i) ==
    IF i > Len(keys) THEN self
    ELSE BuilderBindMulti(BuilderBind(self, action, keys[i]), action, keys, i + 1)

\* KeyBindingsBuilder::bind_sequence
BuilderBindSequence(self, sequence, action) ==
    [self EXCEPT !.global = Insert(@, sequence, action)]

\* ContextBuilder::bind
ContextBind(self, action, keys) ==
    LET r == ParsedKeyStrings[keys]
    IN  IF r.ok
        THEN [self EXCEPT !.bindings = Insert(@, r.value[1], action)]
        ELSE [self EXCEPT !.errors = Append(@, r.error[1])]

\* ContextBuilder::bind_multi, from the i-th key string on.
RECURSIVE ContextBindMulti(_, _, _, _)
ContextBindMulti(self, action, keys, i) ==
    IF i > Len(keys) THEN self
    ELSE ContextBindMulti(ContextBind(self, action, keys[i]), action, keys, i + 1)

\* ContextBuilder::bind_sequence
ContextBindSequence(self, sequence, action) ==
    [self EXCEPT !.bindings = Insert(@, sequence, action)]

\* KeyBindingsBuilder::context, once the closure has returned ctx_builder.
FinishContext(self, name, ctx_builder) ==
    [self EXCEPT !.contexts = Insert(@, name, ctx_builder.bindings),
                 !.errors = @ \o ctx_builder.errors]

\* The KeyBindings that build and try_build make of the builder.
BuiltFrom(self) == [global |-> self.global, contexts |-> self.contexts]

\* KeyBindingsBuilder::try_build, returning the registry also when there are
\* errors.
TryBuildLossy(self) == Ok(BuiltFrom(self))

\* KeyBindingsBuilder::try_build
TryBuildOf(self) ==
    IF self.errors = <<>> THEN Ok(BuiltFrom(self)) ELSE Err(self.errors)

\* ------------------------------------------------------------------------
\* KeyBindings and its builders: operations
\* ------------------------------------------------------------------------
\* The lists of none, one or two of some key strings.
ListsOf(strings) ==
    {<<>>} \cup { <<k>> : k \in strings }
           \cup { <<k, l>> : k \in strings, l \in strings }

\* The lists of key strings given to bind_multi.
KeyLists == ListsOf(KeyStrings)
ValidKeyLists == ListsOf(ValidKeyStrings)

\* The key sequences looked up and given to bind_sequence.
KeySequences == {<<KeyQ>>, <<KeyCtrlX, KeyCtrlS>>}

ContextNames == {"modal", "edit"}

\* The maps from key sequences to actions.
BindingMaps == UNION { [d -> Actions] : d \in SUBSET KeySequences }

\* The registries merged into the registry.
Registries ==
    { kb \in [global : BindingMaps,
              contexts : UNION { [d -> BindingMaps] : d \in SUBSET ContextNames }] :
        TotalCount(kb) <= MaxEntries }

NoBCall ==
    [op |-> "new", self |-> None, context |-> None, sequence |-> None,
     other |-> None, found |-> None, result |-> NoParse]

\* The builder holds at most MaxEntries bindings and MaxErrors errors, also
\* once the closure of a context has returned.
Fits(b, c) ==
    LET whole == IF c = None THEN b
                 ELSE FinishContext(b, c[1].name, c[1].builder)
    IN  /\ TotalCount(BuiltFrom(whole)) <= MaxEntries
        /\ Len(whole.errors) <= MaxErrors

RegistryInit ==
    /\ builder = NewBuilder
    /\ ctx = None
    /\ registry = NewKeyBindings
    /\ built = FALSE
    /\ bcall = NoBCall

\* KeyBindingsBuilder::bind
Bind(action, keys) ==
    /\ ~built
    /\ ctx = None
    /\ Fits(BuilderBind(builder, action, keys), ctx)
    /\ builder' = BuilderBind(builder, action, keys)
    /\ bcall' = NoBCall
    /\ UNCHANGED <<ctx, registry, built>>
    /\ UNCHANGED otherThanRegistry

\* KeyBindingsBuilder::bind_multi
BindMulti(action, keys) ==
    /\ ~built
    /\ ctx = None
    /\ Fits(BuilderBindMulti(builder, action, keys, 1), ctx)
    /\ builder' = BuilderBindMulti(builder, action, keys, 1)
    /\ bcall' = NoBCall
    /\ UNCHANGED <<ctx, registry, built>>
    /\ UNCHANGED otherThanRegistry

\* KeyBindingsBuilder::bind_sequence
BindSequence(sequence, action) ==
    /\ ~built
    /\ ctx = None
    /\ Fits(BuilderBindSequence(builder, sequence, action), ctx)
    /\ builder' = BuilderBindSequence(builder, sequence, action)
    /\ bcall' = NoBCall
    /\ UNCHANGED <<ctx, registry, built>>
    /\ UNCHANGED otherThanRegistry

\* KeyBindingsBuilder::context, up to the call of the closure.
BeginContext(name) ==
    /\ ~built
    /\ ctx = None
    /\ ctx' = Some([name |-> name, builder |-> NewContextBuilder])
    /\ bcall' = NoBCall
    /\ UNCHANGED <<builder, registry, built>>
    /\ UNCHANGED otherThanRegistry

\* ContextBuilder::bind, called by the closure.
CtxBind(action, keys) ==
    /\ ctx /= None
    /\ LET next == Some([ctx[1] EXCEPT !.builder = ContextBind(@, action, keys)])
       IN  /\ Fits(builder, next)
           /\ ctx' = next
    /\ bcall' = NoBCall
    /\ UNCHANGED <<builder, registry, built>>
    /\ UNCHANGED otherThanRegistry

\* ContextBuilder::bind_multi, called by the closure.
CtxBindMulti(action, keys) ==
    /\ ctx /= None
    /\ LET next == Some([ctx[1] EXCEPT !.builder = ContextBindMulti(@, action, keys, 1)])
       IN  /\ Fits(builder, next)
           /\ ctx' = next
    /\ bcall' = NoBCall
    /\ UNCHANGED <<builder, registry, built>>
    /\ UNCHANGED otherThanRegistry

\* ContextBuilder::bind_sequence, called by the closure.
CtxBindSequence(sequence, action) ==
    /\ ctx /= None
    /\ LET next == Some([ctx[1] EXCEPT !.builder = ContextBindSequence(@, sequence, action)])
       IN  /\ Fits(builder, next)
           /\ ctx' = next
    /\ bcall' = NoBCall
    /\ UNCHANGED <<builder, registry, built>>
    /\ UNCHANGED otherThanRegistry

\* KeyBindingsBuilder::context, from the return of the closure on.
EndContext ==
    /\ ctx /= None
    /\ builder' = FinishContext(builder, ctx[1].name, ctx[1].builder)
    /\ ctx' = None
    /\ bcall' = NoBCall
    /\ UNCHANGED <<registry, built>>
    /\ UNCHANGED otherThanRegistry

\* KeyBindingsBuilder::build: the builder is consumed.
Build ==
    /\ ~built
    /\ ctx = None
    /\ registry' = BuiltFrom(builder)
    /\ built' = TRUE
    /\ builder' = NewBuilder
    /\ bcall' = [NoBCall EXCEPT !.op = "build", !.self = Some(builder)]
    /\ UNCHANGED ctx
    /\ UNCHANGED otherThanRegistry

\* KeyBindingsBuilder::try_build: the builder is consumed, and there is a
\* registry only when the Result is Ok.
TryBuild ==
    /\ ~built
    /\ ctx = None
    /\ LET result == TryBuildOf(builder)
       IN  /\ registry' = IF result.ok THEN result.value[1] ELSE registry
           /\ built' = result.ok
           /\ bcall' = [NoBCall EXCEPT !.op = "try_build",
                                       !.self = Some(builder),
                                       !.result = result]
    /\ builder' = NewBuilder
    /\ UNCHANGED ctx
    /\ UNCHANGED otherThanRegistry

\* KeyBindings::lookup
CallLookup(context, sequence) ==
    /\ built
    /\ bcall = NoBCall
    /\ bcall' = [NoBCall EXCEPT !.op = "lookup", !.context = context,
                                !.sequence = Some(sequence),
                                !.found = Lookup(registry, context, sequence)]
    /\ UNCHANGED <<builder, ctx, registry, built>>
    /\ UNCHANGED otherThanRegistry

\* KeyBindings::merge
CallMerge(other) ==
    /\ built
    /\ bcall = NoBCall
    /\ TotalCount(Merge(registry, other)) <= MaxEntries
    /\ registry' = Merge(registry, other)
    /\ bcall' = [NoBCall EXCEPT !.op = "merge", !.self = Some(registry),
                                !.other = Some(other)]
    /\ UNCHANGED <<builder, ctx, built>>
    /\ UNCHANGED otherThanRegistry

\* The caller takes what build, try_build, lookup or merge returned.
TakeReturned ==
    /\ bcall /= NoBCall
    /\ bcall' = NoBCall
    /\ UNCHANGED <<builder, ctx, registry, built>>
    /\ UNCHANGED otherThanRegistry

\* KeyBindings::builder: the registry is dropped and a new builder started.
StartBuilder ==
    /\ built
    /\ builder' = NewBuilder
    /\ registry' = NewKeyBindings
    /\ built' = FALSE
    /\ bcall' = NoBCall
    /\ UNCHANGED ctx
    /\ UNCHANGED otherThanRegistry

\* The registry, built from key strings that parse.
RegistryNext ==
    \/ \E action \in Actions, keys \in ValidKeyStrings : Bind(action, keys)
    \/ \E action \in Actions, keys \in ValidKeyLists : BindMulti(action, keys)
    \/ \E sequence \in KeySequences, action \in Actions : BindSequence(sequence, action)
    \/ \E name \in ContextNames : BeginContext(name)
    \/ \E action \in Actions, keys \in ValidKeyStrings : CtxBind(action, keys)
    \/ \E action \in Actions, keys \in ValidKeyLists : CtxBindMulti(action, keys)
    \/ \E sequence \in KeySequences, action \in Actions : CtxBindSequence(sequence, action)
    \/ EndContext
    \/ Build
    \/ TryBuild
    \/ \E context \in {None} \cup { Some(c) : c \in ContextNames },
          sequence \in KeySequences : CallLookup(context, sequence)
    \/ \E other \in Registries : CallMerge(other)
    \/ TakeReturned
    \/ StartBuilder

\* The builders, given key strings that parse and key strings that do not,
\* with one context name.
BuilderNext ==
    \/ \E action \in Actions, keys \in KeyStrings : Bind(action, keys)
    \/ \E action \in Actions, keys \in KeyLists : BindMulti(action, keys)
    \/ \E sequence \in KeySequences, action \in Actions : BindSequence(sequence, action)
    \/ BeginContext("modal")
    \/ \E action \in Actions, keys \in KeyStrings : CtxBind(action, keys)
    \/ \E action \in Actions, keys \in KeyLists : CtxBindMulti(action, keys)
    \/ \E sequence \in KeySequences, action \in Actions : CtxBindSequence(sequence, action)
    \/ EndContext
    \/ Build
    \/ TryBuild
    \/ TakeReturned
    \/ StartBuilder

\* ------------------------------------------------------------------------
\* KeySequence and its builder
\* ------------------------------------------------------------------------
\* What a constructor call comes to: a KeySequence, no value, or a panic.
Made(sequence) == [panicked |-> FALSE, value |-> Some(sequence)]
NotMade == [panicked |-> FALSE, value |-> None]
Panicked == [panicked |-> TRUE, value |-> None]

\* KeySequence::new without its assertion.
KeySequenceNewUnchecked(keys) == Made(keys)

\* KeySequence::new
KeySequenceNew(keys) ==
    IF keys = <<>> THEN Panicked ELSE Made(keys)

\* KeySequence::single
KeySequenceSingle(binding) == Made(<<binding>>)

\* The vectors of up to n key bindings given to the constructors.
RECURSIVE KeyVecs(_)
KeyVecs(n) ==
    IF n = 0 THEN {<<>>}
    ELSE KeyVecs(n - 1) \cup { Append(v, KeyG) : v \in KeyVecs(n - 1) }

SequenceInit ==
    /\ seq_builder = <<>>
    /\ made = NotMade

\* ------------------------------------------------------------------------
\* FocusRing
\* ------------------------------------------------------------------------
\* A call on a ring: the ring it leaves and the value it returns.
RingCall(ring, returned) == [ring |-> ring, returned |-> returned]

FocusEntry(id, order) == [id |-> id, order |-> order]

\* FocusRing::new
NewRing == [entries |-> <<>>, current_index |-> None]

\* entries.iter().position(|e| e.id == id), counted from 0
RECURSIVE PositionFrom(_, _, _)
PositionFrom(entries, id, i) ==
    IF i > Len(entries) THEN None
    ELSE IF entries[i].id = id THEN Some(i - 1)
    ELSE PositionFrom(entries, id, i + 1)

Position(entries, id) == PositionFrom(entries, id, 1)

\* Vec::remove(pos), pos counted from 0
RemoveAt(entries, pos) ==
    [i \in 1..(Len(entries) - 1) |->
        IF i <= pos THEN entries[i] ELSE entries[i + 1]]

\* One entry put behind every entry whose order is not greater.
RECURSIVE InsertByKey(_, _)
InsertByKey(sorted, entry) ==
    IF sorted = <<>> THEN <<entry>>
    ELSE IF sorted[Len(sorted)].order <= entry.order THEN Append(sorted, entry)
    ELSE Append(InsertByKey(SubSeq(sorted, 1, Len(sorted) - 1), entry),
                sorted[Len(sorted)])

\* entries.sort_by_key(|e| e.order): a stable sort
RECURSIVE SortByKey(_)
SortByKey(entries) ==
    IF entries = <<>> THEN <<>>
    ELSE InsertByKey(SortByKey(SubSeq(entries, 1, Len(entries) - 1)),
                     entries[Len(entries)])

\* FocusRing::current
RingCurrent(ring) ==
    IF ring.current_index = None THEN None
    ELSE Some(ring.entries[ring.current_index[1] + 1].id)

\* FocusRing::sort_entries
SortEntries(ring) ==
    LET current_id == RingCurrent(ring)
        sorted == SortByKey(ring.entries)
    IN  [entries |-> sorted,
         current_index |-> IF current_id /= None
                           THEN Position(sorted, current_id[1])
                           ELSE ring.current_index]

\* FocusRing::register
RingRegister(ring, id, order) ==
    LET found == Position(ring.entries, id)
    IN  IF found /= None
        THEN SortEntries([ring EXCEPT !.entries[found[1] + 1].order = order])
        ELSE SortEntries([ring EXCEPT
                            !.entries = Append(@, FocusEntry(id, order))])

\* FocusRing::unregister
RingUnregister(ring, id) ==
    LET found == Position(ring.entries, id)
        pos == found[1]
        left == RemoveAt(ring.entries, pos)
        current == ring.current_index[1]
    IN  IF found = None THEN RingCall(ring, FALSE)
        ELSE RingCall(
               [entries |-> left,
                current_index |->
                    IF ring.current_index = None THEN None
                    ELSE IF left = <<>> THEN None
                    ELSE IF current = pos
                         THEN Some(Min(current, Len(left) - 1))
                    ELSE IF current > pos THEN Some(current - 1)
                    ELSE ring.current_index],
               TRUE)

\* FocusRing::next
RingNext(ring) ==
    LET new_index == IF ring.current_index = None THEN 0
                     ELSE (ring.current_index[1] + 1) % Len(ring.entries)
    IN  IF ring.entries = <<>> THEN RingCall(ring, None)
        ELSE RingCall([ring EXCEPT !.current_index = Some(new_index)],
                      Some(ring.entries[new_index + 1].id))

\* FocusRing::prev
RingPrev(ring) ==
    LET new_index == IF ring.current_index = None THEN Len(ring.entries) - 1
                     ELSE IF ring.current_index[1] = 0
                          THEN Len(ring.entries) - 1
                     ELSE ring.current_index[1] - 1
    IN  IF ring.entries = <<>> THEN RingCall(ring, None)
        ELSE RingCall([ring EXCEPT !.current_index = Some(new_index)],
                      Some(ring.entries[new_index + 1].id))

\* FocusRing::focus
RingFocus(ring, id) ==
    LET found == Position(ring.entries, id)
    IN  IF found /= None
        THEN RingCall([ring EXCEPT !.current_index = found], TRUE)
        ELSE RingCall(ring, FALSE)

\* FocusRing::clear_focus
RingClearFocus(ring) == [ring EXCEPT !.current_index = None]

\* FocusRing::contains
RingContains(ring, id) == \E i \in 1..Len(ring.entries) : ring.entries[i].id = id

\* The ids registered in the ring under test, and the order values given.
FocusIds == {"a", "b", "c"}
Orders == 0..MaxOrder

RingInit ==
    /\ focus_ring = NewRing
    /\ registered = <<>>
    /\ registered_last = <<>>

\* ------------------------------------------------------------------------
\* FocusTrap and FocusManager
\* ------------------------------------------------------------------------
\* FocusTrap::new
NewTrap == [ring |-> NewRing, saved_focus |-> None]

\* FocusTrap::register
TrapRegister(trap, id, order) ==
    [trap EXCEPT !.ring = RingRegister(@, id, order)]

\* FocusManager::new
NewManager == [ring |-> NewRing, traps |-> <<>>, restoration_stack |-> <<>>]

\* A call on a manager: the manager it leaves and the value it returns.
ManagerCall(manager, returned) == [manager |-> manager, returned |-> returned]

\* FocusManager::has_trap
HasTrap(manager) == manager.traps /= <<>>

\* self.traps.last()
TopTrap(manager) == manager.traps[Len(manager.traps)]

\* The ring a call works on: that of the topmost trap (self.traps.last_mut())
\* or, with no trap, the manager's own.
ActiveRing(manager) ==
    IF HasTrap(manager) THEN TopTrap(manager).ring ELSE manager.ring

\* The manager with the ring its calls work on replaced.
WithActiveRing(manager, ring) ==
    IF HasTrap(manager)
    THEN [manager EXCEPT !.traps[Len(manager.traps)].ring = ring]
    ELSE [manager EXCEPT !.ring = ring]

\* FocusManager::current
ManagerCurrent(manager) == RingCurrent(ActiveRing(manager))

\* FocusManager::contains
ManagerContains(manager, id) == RingContains(ActiveRing(manager), id)

\* The FocusResult values.
Moved(from, to) == [tag |-> "Moved", from |-> from, to |-> Some(to)]
Unchanged(id) == [tag |-> "Unchanged", from |-> None, to |-> Some(id)]
NoFocusables == [tag |-> "NoFocusables", from |-> None, to |-> None]

\* FocusManager::navigate
Navigate(manager, direction) ==
    LET from == ManagerCurrent(manager)
        moved == IF direction = "Next" THEN RingNext(ActiveRing(manager))
                 ELSE RingPrev(ActiveRing(manager))
        to == moved.returned
    IN  ManagerCall(WithActiveRing(manager, moved.ring),
                    IF to = None THEN NoFocusables
                    ELSE IF from = to THEN Unchanged(to[1])
                    ELSE Moved(from, to[1]))

\* FocusManager::focus_next
FocusNext(manager) ==
    LET navigated == Navigate(manager, "Next")
    IN  ManagerCall(navigated.manager, navigated.returned.to)

\* FocusManager::focus_prev
FocusPrev(manager) ==
    LET navigated == Navigate(manager, "Previous")
    IN  ManagerCall(navigated.manager, navigated.returned.to)

\* FocusManager::focus with the trap left out of account.
ManagerFocusInMainRing(manager, id) ==
    LET focused == RingFocus(manager.ring, id)
    IN  ManagerCall([manager EXCEPT !.ring = focused.ring], focused.returned)

\* FocusManager::focus
ManagerFocus(manager, id) ==
    LET focused == RingFocus(ActiveRing(manager), id)
    IN  ManagerCall(WithActiveRing(manager, focused.ring), focused.returned)

\* FocusManager::clear_focus
ManagerClearFocus(manager) ==
    WithActiveRing(manager, RingClearFocus(ActiveRing(manager)))

\* FocusManager::register
ManagerRegister(manager, id, order) ==
    [manager EXCEPT !.ring = RingRegister(@, id, order)]

\* FocusManager::unregister
ManagerUnregister(manager, id) ==
    LET removed == RingUnregister(manager.ring, id)
    IN  ManagerCall([manager EXCEPT !.ring = removed.ring], removed.returned)

\* FocusManager::push_trap
PushTrap(manager, trap) ==
    LET current == ManagerCurrent(manager)
        entered == IF RingCurrent(trap.ring) = None /\ trap.ring.entries /= <<>>
                   THEN [trap EXCEPT !.ring = RingNext(@).ring]
                   ELSE trap
    IN  [manager EXCEPT
            !.restoration_stack = IF current /= None THEN Append(@, current[1])
                                  ELSE @,
            !.traps = Append(@, entered)]

\* FocusManager::pop_trap
PopTrap(manager) ==
    LET trap == TopTrap(manager)
        popped == [manager EXCEPT !.traps = SubSeq(@, 1, Len(@) - 1)]
        stack == manager.restoration_stack
        saved_id == stack[Len(stack)]
        unstacked == [popped EXCEPT
                        !.restoration_stack = SubSeq(stack, 1, Len(stack) - 1)]
    IN  IF ~HasTrap(manager) THEN ManagerCall(manager, None)
        ELSE IF stack = <<>> THEN ManagerCall(popped, Some(trap))
        ELSE ManagerCall(ManagerFocus(unstacked, saved_id).manager, Some(trap))

\* FocusManager::save_focus
SaveFocus(manager) ==
    LET current == ManagerCurrent(manager)
    IN  IF current /= None
        THEN [manager EXCEPT !.restoration_stack = Append(@, current[1])]
        ELSE manager

\* FocusManager::restore_focus
RestoreFocus(manager) ==
    LET stack == manager.restoration_stack
        id == stack[Len(stack)]
        unstacked == [manager EXCEPT
                        !.restoration_stack = SubSeq(stack, 1, Len(stack) - 1)]
    IN  IF stack = <<>> THEN ManagerCall(manager, None)
        ELSE ManagerCall(ManagerFocus(unstacked, id).manager, Some(id))

\* The components of the page and the traps opened over it: a dialog with
\* two components of its own and one that holds a component of the page.
PageIds == {"a", "b"}
TrapInputs ==
    { TrapRegister(TrapRegister(NewTrap, "x", 0), "y", 0),
      TrapRegister(NewTrap, "a", 0) }
ManagerIds == PageIds \cup {"x", "y"}
Directions == {"Next", "Previous"}

\* The traps pushed so far have seen a call that is no navigation.
Disturbed == [i \in DOMAIN pushed |-> None]

ManagerInit ==
    /\ focus_manager = NewManager
    /\ pushed = <<>>

\* ------------------------------------------------------------------------
\* EventLoop
\* ------------------------------------------------------------------------
\* The kinds of AppEvent, and those a task can send on the channel.
AppEvents == {"Terminal", "Action", "Message", "Tick", "Shutdown"}
SentEvents == {"Action", "Message", "Shutdown"}

\* ControlFlow
ControlFlows == {"Continue", "Exit"}

\* ControlFlow::should_exit
ShouldExit(flow) == flow = "Exit"

\* EventLoopConfig::default, as far as the loop's exit depends on it.
DefaultConfig == [handle_signals |-> TRUE, headless |-> FALSE]

LoopInit ==
    /\ loop_config = DefaultConfig
    /\ loop_pc = "new"
    /\ channel = <<>>
    /\ loop_event = None
    /\ control = None
    /\ signal = "none"

\* ------------------------------------------------------------------------
\* Debouncer
\* ------------------------------------------------------------------------
\* Debouncer::new
NewDebouncer(delay) == [delay |-> delay, last_event |-> None]

\* Debouncer::should_process, called at time t
ShouldProcess(d, t) ==
    IF d.last_event /= None /\ t - d.last_event[1] < d.delay
    THEN [debouncer |-> d, returned |-> FALSE]
    ELSE [debouncer |-> [d EXCEPT !.last_event = Some(t)], returned |-> TRUE]

NoDCall == [at |-> 0, previous |-> None, delay |-> 0, returned |-> None]

DebouncerInit ==
    /\ debouncer = NewDebouncer(1)
    /\ clock = 0
    /\ last_call = None
    /\ dcall = NoDCall

\* ------------------------------------------------------------------------
\* TextInput
\* ------------------------------------------------------------------------
\* The chars typed: a, of one byte in UTF-8, and e with an acute accent
\* (U+00E9), of two bytes.
Chars == {"a", "e_acute"}
Utf8Len(c) == IF c = "e_acute" THEN 2 ELSE 1

\* str::len: the length in bytes
RECURSIVE ByteLen(_)
ByteLen(text) ==
    IF text = <<>> THEN 0
    ELSE Utf8Len(Head(text)) + ByteLen(Tail(text))

\* TextInput::char_count
CharCount(text) == Len(text)

\* TextInput::char_to_byte_index
CharToByteIndex(text, char_idx) ==
    IF char_idx >= Len(text) THEN ByteLen(text)
    ELSE ByteLen(SubSeq(text, 1, char_idx))

\* TextInput::byte_to_char_index, for a byte index on a char boundary
ByteToCharIndex(text, byte_idx) ==
    CHOOSE k \in 0..Len(text) : ByteLen(SubSeq(text, 1, k)) = byte_idx

\* &text[range]
Slice(text, range) ==
    SubSeq(text, ByteToCharIndex(text, range.start) + 1,
           ByteToCharIndex(text, range.end))

\* text.replace_range(range, "") and text.drain(range)
Drain(text, range) ==
    SubSeq(text, 1, ByteToCharIndex(text, range.start))
      \o SubSeq(text, ByteToCharIndex(text, range.end) + 1, Len(text))

\* text.insert_str(at, inserted)
InsertStr(text, at, inserted) ==
    SubSeq(text, 1, ByteToCharIndex(text, at)) \o inserted
      \o SubSeq(text, ByteToCharIndex(text, at) + 1, Len(text))

ByteRange(start, end) == [start |-> start, end |-> end]

\* TextInput::new
NewTextInput ==
    [text |-> <<>>, cursor |-> 0, selection |-> None, max_length |-> None]

\* An update: the input it leaves and the tag of the action it returns.
Updated(input, action) == [input |-> input, action |-> action]

\* TextInput::set_text
SetTextOf(input, text) ==
    [input EXCEPT !.text = text, !.cursor = ByteLen(text), !.selection = None]

\* TextInput::move_cursor_left
MoveCursorLeft(input) ==
    [input EXCEPT
       !.cursor = IF input.cursor > 0
                  THEN CharToByteIndex(input.text,
                         ByteToCharIndex(input.text, input.cursor) - 1)
                  ELSE @,
       !.selection = None]

\* TextInput::move_cursor_right
MoveCursorRight(input) ==
    [input EXCEPT
       !.cursor = IF input.cursor < ByteLen(input.text)
                  THEN CharToByteIndex(input.text,
                         ByteToCharIndex(input.text, input.cursor) + 1)
                  ELSE @,
       !.selection = None]

\* TextInput::extend_selection
ExtendSelection(input, new_cursor) ==
    LET anchor == IF input.selection = None THEN input.cursor
                  ELSE IF input.cursor = input.selection[1].start
                       THEN input.selection[1].end
                  ELSE input.selection[1].start
    IN  [input EXCEPT
           !.cursor = new_cursor,
           !.selection = IF anchor = new_cursor THEN None
                         ELSE IF anchor < new_cursor
                              THEN Some(ByteRange(anchor, new_cursor))
                         ELSE Some(ByteRange(new_cursor, anchor))]

\* TextInput::delete_selection: the input it leaves and the deleted text
DeleteSelection(input) ==
    IF input.selection = None THEN [input |-> input, deleted |-> None]
    ELSE [input |-> [input EXCEPT
                       !.text = Drain(@, input.selection[1]),
                       !.cursor = input.selection[1].start,
                       !.selection = None],
          deleted |-> Some(Slice(input.text, input.selection[1]))]

\* TextInput::insert_text without the check of max_length.
InsertTextUnlimited(input, text) ==
    LET cleared == DeleteSelection(input).input
    IN  [input |-> [cleared EXCEPT
                      !.text = InsertStr(@, cleared.cursor, text),
                      !.cursor = @ + ByteLen(text)],
         inserted |-> TRUE]

\* TextInput::insert_text: the input it leaves and whether it inserted
InsertText(input, text) ==
    LET selection_chars == IF input.selection = None THEN 0
                           ELSE CharCount(Slice(input.text, input.selection[1]))
        cleared == DeleteSelection(input).input
    IN  IF /\ input.max_length /= None
           /\ CharCount(input.text) - selection_chars + CharCount(text)
                > input.max_length[1]
        THEN [input |-> input, inserted |-> FALSE]
        ELSE [input |-> [cleared EXCEPT
                           !.text = InsertStr(@, cleared.cursor, text),
                           !.cursor = @ + ByteLen(text)],
              inserted |-> TRUE]

\* The messages: a tag and, for InsertChar, Paste and SetText, a text.
Msg(tag, text) == [tag |-> tag, text |-> text]

\* Component::update of TextInput, the word-wise messages left out
Update(input, msg) ==
    LET char_pos == ByteToCharIndex(input.text, input.cursor)
        before == CharToByteIndex(input.text, char_pos - 1)
        after == CharToByteIndex(input.text, char_pos + 1)
        inserted == InsertText(input, msg.text)
    IN  CASE msg.tag \in {"InsertChar", "Paste"} ->
               IF inserted.inserted THEN Updated(inserted.input, Some("Changed"))
               ELSE Updated(inserted.input, None)
          [] msg.tag = "Backspace" ->
               IF input.selection /= None
               THEN Updated(DeleteSelection(input).input, Some("Changed"))
               ELSE IF input.cursor > 0
               THEN Updated([input EXCEPT
                               !.text = Drain(@, ByteRange(before, input.cursor)),
                               !.cursor = before],
                            Some("Changed"))
               ELSE Updated(input, None)
          [] msg.tag = "Delete" ->
               IF input.selection /= None
               THEN Updated(DeleteSelection(input).input, Some("Changed"))
               ELSE IF input.cursor < ByteLen(input.text)
               THEN Updated([input EXCEPT
                               !.text = Drain(@, ByteRange(input.cursor, after))],
                            Some("Changed"))
               ELSE Updated(input, None)
          [] msg.tag = "CursorLeft" -> Updated(MoveCursorLeft(input), None)
          [] msg.tag = "CursorRight" -> Updated(MoveCursorRight(input), None)
          [] msg.tag = "CursorHome" ->
               Updated([input EXCEPT !.cursor = 0, !.selection = None], None)
          [] msg.tag = "CursorEnd" ->
               Updated([input EXCEPT !.cursor = ByteLen(input.text),
                                     !.selection = None], None)
          [] msg.tag = "SelectLeft" ->
               IF input.cursor > 0
               THEN Updated(ExtendSelection(input, before), None)
               ELSE Updated(input, None)
          [] msg.tag = "SelectRight" ->
               IF input.cursor < ByteLen(input.text)
               THEN Updated(ExtendSelection(input, after), None)
               ELSE Updated(input, None)
          [] msg.tag = "SelectHome" ->
               Updated(ExtendSelection(input, 0), None)
          [] msg.tag = "SelectEnd" ->
               Updated(ExtendSelection(input, ByteLen(input.text)), None)
          [] msg.tag = "SelectAll" ->
               IF input.text /= <<>>
               THEN Updated([input EXCEPT
                               !.selection = Some(ByteRange(0, ByteLen(input.text))),
                               !.cursor = ByteLen(input.text)], None)
               ELSE Updated(input, None)
          [] msg.tag = "ClearSelection" ->
               Updated([input EXCEPT !.selection = None], None)
          [] msg.tag = "Cut" ->
               IF DeleteSelection(input).deleted /= None
               THEN Updated(DeleteSelection(input).input, Some("CutToClipboard"))
               ELSE Updated(input, None)
          [] msg.tag = "Copy" ->
               IF input.selection /= None
               THEN Updated(input, Some("CopiedToClipboard"))
               ELSE Updated(input, None)
          [] msg.tag = "SetText" ->
               Updated(SetTextOf(input, msg.text), Some("Changed"))
          [] msg.tag = "Clear" ->
               Updated([input EXCEPT !.text = <<>>, !.cursor = 0,
                                     !.selection = None], Some("Changed"))

\* The texts of up to n chars.
RECURSIVE Texts(_)
Texts(n) ==
    IF n = 0 THEN {<<>>}
    ELSE Texts(n - 1)
           \cup { Append(text, c) : text \in Texts(n - 1), c \in Chars }

\* The messages sent to the input.
Messages(n) ==
    { Msg("InsertChar", <<c>>) : c \in Chars }
      \cup { Msg("Paste", text) : text \in Texts(n) }
      \cup { Msg("SetText", text) : text \in Texts(n) }
      \cup { Msg(tag, <<>>) :
               tag \in {"Backspace", "Delete", "CursorLeft", "CursorRight",
                        "CursorHome", "CursorEnd", "SelectLeft", "SelectRight",
                        "SelectHome", "SelectEnd", "SelectAll",
                        "ClearSelection", "Cut", "Copy", "Clear"} }

InputInit ==
    /\ text_input = NewTextInput
    /\ taction = None

\* ------------------------------------------------------------------------
\* InputMatcher: pure parts
\* ------------------------------------------------------------------------
\* zip(a, b).all(==): compares the two lists over their common length.
ZipAllEqual(a, b) == \A i \in 1..Min(Len(a), Len(b)) : a[i] = b[i]

\* Variant of find_complete_match: the keys are not compared, the first
\* binding as long as the pending keys is taken.
FindCompleteMatchByLength(bs, pk) ==
    LET same == { i \in 1..Len(bs) : Len(bs[i].sequence) = Len(pk) }
    IN  IF same = {} THEN None
        ELSE Some(bs[CHOOSE i \in same : \A j \in same : i <= j].action)

\* InputMatcher::find_complete_match: the action of the first binding, in
\* registration order, whose sequence has the length of the pending keys and
\* equals them elementwise.
RECURSIVE FindCompleteMatch(_, _)
FindCompleteMatch(bs, pk) ==
    IF bs = <<>> THEN None
    ELSE IF Len(Head(bs).sequence) = Len(pk) /\ ZipAllEqual(Head(bs).sequence, pk)
         THEN Some(Head(bs).action)
         ELSE FindCompleteMatch(Tail(bs), pk)

\* Variant of has_partial_match: a binding as long as the pending keys counts.
RECURSIVE HasPartialMatchOrEqual(_, _)
HasPartialMatchOrEqual(bs, pk) ==
    IF bs = <<>> THEN FALSE
    ELSE IF Len(Head(bs).sequence) >= Len(pk)
            /\ ZipAllEqual(SubSeq(Head(bs).sequence, 1, Len(pk)), pk)
         THEN TRUE
         ELSE HasPartialMatchOrEqual(Tail(bs), pk)

\* InputMatcher::has_partial_match: some binding is longer than the pending
\* keys and starts with them.
RECURSIVE HasPartialMatch(_, _)
HasPartialMatch(bs, pk) ==
    IF bs = <<>> THEN FALSE
    ELSE IF Len(Head(bs).sequence) > Len(pk)
            /\ ZipAllEqual(SubSeq(Head(bs).sequence, 1, Len(pk)), pk)
         THEN TRUE
         ELSE HasPartialMatch(Tail(bs), pk)

\* Variant of the timeout test: a gap equal to the timeout expires too.
TimedOutAtLimit(lkt, t, timeout) == lkt /= None /\ t - lkt[1] >= timeout

\* The timeout test at the head of process.
TimedOut(lkt, t, timeout) == lkt /= None /\ t - lkt[1] > timeout

\* Variant of the reset: the pending keys are not cleared.
ResetWithoutClear(result, appended, restarted) ==
    [pending_keys |-> appended, last_key_time |-> None, result |-> result,
     appended |-> appended, restarted |-> restarted]

\* The state reset_sequence leaves behind, with the result returned.
ResetWith(result, appended, restarted) ==
    [pending_keys |-> <<>>, last_key_time |-> None, result |-> result,
     appended |-> appended, restarted |-> restarted]

\* Variant of the Pending return: the time of the event is not recorded.
KeepWithoutTime(pk, t, appended, restarted) ==
    [pending_keys |-> pk, last_key_time |-> None, result |-> Pending,
     appended |-> appended, restarted |-> restarted]

\* The state process leaves behind when it returns Pending.
KeepWith(pk, t, appended, restarted) ==
    [pending_keys |-> pk, last_key_time |-> Some(t), result |-> Pending,
     appended |-> appended, restarted |-> restarted]

\* Variant of the retry: the abandoned attempt is dropped with its last key.
RetryAloneDropped(bs, key_binding, t, appended) ==
    ResetWith(NoMatch, appended, TRUE)

\* The retry of the current key alone, after an abandoned multi-key attempt.
RetryAlone(bs, key_binding, t, appended) ==
    LET pk == <<key_binding>>
        found == FindCompleteMatch(bs, pk)
    IN  IF HasPartialMatch(bs, pk) THEN KeepWith(pk, t, appended, TRUE)
        ELSE IF found /= None THEN ResetWith(Matched(found[1]), appended, TRUE)
        ELSE ResetWith(NoMatch, appended, TRUE)

\* Variant of the matching steps: the complete match is looked for first.
MatchAppendedExactFirst(bs, pk, key_binding, t) ==
    LET found == FindCompleteMatch(bs, pk)
    IN  IF found /= None THEN ResetWith(Matched(found[1]), pk, FALSE)
        ELSE IF HasPartialMatch(bs, pk) THEN KeepWith(pk, t, pk, FALSE)
        ELSE IF Len(pk) > 1 THEN RetryAlone(bs, key_binding, t, pk)
        ELSE ResetWith(NoMatch, pk, FALSE)

\* The matching steps of process, after the key was appended.
MatchAppended(bs, pk, key_binding, t) ==
    LET found == FindCompleteMatch(bs, pk)
    IN  IF HasPartialMatch(bs, pk) THEN KeepWith(pk, t, pk, FALSE)
        ELSE IF found /= None THEN ResetWith(Matched(found[1]), pk, FALSE)
        ELSE IF Len(pk) > 1 THEN RetryAlone(bs, key_binding, t, pk)
        ELSE ResetWith(NoMatch, pk, FALSE)

\* Variant of process: an abandoned attempt of three or more keys is retried
\* with its last two keys before the current key is retried alone.
ProcessCallSuffixRetry(bs, pk, lkt, timeout, event, t) ==
    LET kept == IF TimedOut(lkt, t, timeout) THEN <<>> ELSE pk
        key_binding == WithMods(event.code, event.modifiers)
        appended == Append(kept, key_binding)
        r == MatchAppended(bs, appended, key_binding, t)
        found == FindCompleteMatch(
                     bs, SubSeq(appended, Len(appended) - 1, Len(appended)))
    IN  IF r.restarted /\ Len(appended) >= 3 /\ found /= None
        THEN ResetWith(Matched(found[1]), appended, TRUE)
        ELSE r

\* InputMatcher::process as a function of the matcher's fields, the event
\* and the time read.
ProcessCall(bs, pk, lkt, timeout, event, t) ==
    LET kept == IF TimedOut(lkt, t, timeout) THEN <<>> ELSE pk
        key_binding == WithMods(event.code, event.modifiers)
    IN  MatchAppended(bs, Append(kept, key_binding), key_binding, t)

NoCall == [key |-> KeyG, pre |-> <<>>, elapsed |-> None, appended |-> <<>>,
           restarted |-> FALSE, result |-> NoResult]

\* ------------------------------------------------------------------------
\* InputMatcher: operations
\* ------------------------------------------------------------------------
MatcherInit ==
    /\ bindings = <<>>
    /\ pending_keys = <<>>
    /\ last_key_time = None
    /\ sequence_timeout \in 1..MaxTimeout
    /\ now = 0
    /\ op = "new"
    /\ call = NoCall
    /\ hist = <<>>
    /\ RouterInit
    /\ ParserInit
    /\ RegistryInit
    /\ SequenceInit
    /\ RingInit
    /\ ManagerInit
    /\ LoopInit
    /\ DebouncerInit
    /\ InputInit

\* InputMatcher::register
Register(b) ==
    /\ Len(bindings) < MaxBindings
    /\ bindings' = Append(bindings, b)
    /\ op' = "register"
    /\ call' = NoCall
    /\ hist' = <<>>
    /\ UNCHANGED <<pending_keys, last_key_time, sequence_timeout, now>>
    /\ UNCHANGED otherThanMatcher

\* Variant of clear_bindings: the pending sequence is kept.
ClearBindingsOnly ==
    /\ bindings' = <<>>
    /\ op' = "clear_bindings"
    /\ call' = NoCall
    /\ hist' = <<>>
    /\ UNCHANGED <<pending_keys, last_key_time, sequence_timeout, now>>
    /\ UNCHANGED otherThanMatcher

\* InputMatcher::clear_bindings
ClearBindings ==
    /\ bindings' = <<>>
    /\ pending_keys' = <<>>
    /\ last_key_time' = None
    /\ op' = "clear_bindings"
    /\ call' = NoCall
    /\ hist' = <<>>
    /\ UNCHANGED <<sequence_timeout, now>>
    /\ UNCHANGED otherThanMatcher

\* InputMatcher::reset_sequence
ResetSequence ==
    /\ pending_keys' = <<>>
    /\ last_key_time' = None
    /\ op' = "reset_sequence"
    /\ call' = NoCall
    /\ hist' = <<>>
    /\ UNCHANGED <<bindings, sequence_timeout, now>>
    /\ UNCHANGED otherThanMatcher

\* InputMatcher::set_sequence_timeout
SetSequenceTimeout(timeout) ==
    /\ sequence_timeout' = timeout
    /\ op' = "set_sequence_timeout"
    /\ call' = NoCall
    /\ hist' = <<>>
    /\ UNCHANGED <<bindings, pending_keys, last_key_time, now>>
    /\ UNCHANGED otherThanMatcher

\* InputMatcher::is_sequence_pending
IsSequencePending == pending_keys /= <<>>

\* Time passes under a background timer that drops a pending sequence as
\* soon as its timeout has run out.
TickWithTimer ==
    LET expired == /\ last_key_time /= None
                   /\ (now + 1) - last_key_time[1] > sequence_timeout
    IN  /\ now < MaxTime
        /\ now' = now + 1
        /\ pending_keys' = IF expired THEN <<>> ELSE pending_keys
        /\ last_key_time' = IF expired THEN None ELSE last_key_time
        /\ UNCHANGED <<bindings, sequence_timeout, op, call, hist>>
        /\ UNCHANGED otherThanMatcher

\* Time passes between two calls.
Tick ==
    /\ now < MaxTime
    /\ now' = now + 1
    /\ UNCHANGED <<bindings, pending_keys, last_key_time, sequence_timeout,
                   op, call, hist>>
    /\ UNCHANGED otherThanMatcher

\* Variant of process: a complete match of the buffer is reported at once,
\* also when a longer registered sequence starts with the buffer.
ProcessShortestFirst(event) ==
    LET key_binding == WithMods(event.code, event.modifiers)
        kept == IF TimedOut(last_key_time, now, sequence_timeout) THEN <<>>
                ELSE pending_keys
        appended == Append(kept, key_binding)
        found == FindCompleteMatch(bindings, appended)
        r == IF found /= None
             THEN ResetWith(Matched(found[1]), appended, FALSE)
             ELSE ProcessCall(bindings, pending_keys, last_key_time,
                              sequence_timeout, event, now)
        idle == pending_keys = <<>> /\ last_key_time = None
    IN  /\ pending_keys' = r.pending_keys
        /\ last_key_time' = r.last_key_time
        /\ op' = "process"
        /\ call' = [key |-> key_binding,
                    pre |-> pending_keys,
                    elapsed |-> IF last_key_time = None THEN None
                                ELSE Some(now - last_key_time[1]),
                    appended |-> r.appended,
                    restarted |-> r.restarted,
                    result |-> r.result]
        /\ hist' = LET entry == [key |-> key_binding,
                                  result |-> r.result,
                                  idle |-> idle,
                                  within |-> last_key_time /= None
                                             /\ now - last_key_time[1] <= sequence_timeout]
                    IN  IF idle THEN <<entry>>
                        ELSE IF hist = <<>> \/ Len(hist) >= MaxHist THEN <<>>
                        ELSE Append(hist, entry)
        /\ UNCHANGED <<bindings, sequence_timeout, now>>
        /\ UNCHANGED otherThanMatcher

\* InputMatcher::process
Process(event) ==
    LET r == ProcessCall(bindings, pending_keys, last_key_time,
                         sequence_timeout, event, now)
        key_binding == WithMods(event.code, event.modifiers)
        idle == pending_keys = <<>> /\ last_key_time = None
    IN  /\ pending_keys' = r.pending_keys
        /\ last_key_time' = r.last_key_time
        /\ op' = "process"
        /\ call' = [key |-> key_binding,
                    pre |-> pending_keys,
                    elapsed |-> IF last_key_time = None THEN None
                                ELSE Some(now - last_key_time[1]),
                    appended |-> r.appended,
                    restarted |-> r.restarted,
                    result |-> r.result]
        /\ hist' = LET entry == [key |-> key_binding,
                                  result |-> r.result,
                                  idle |-> idle,
                                  within |-> last_key_time /= None
                                             /\ now - last_key_time[1] <= sequence_timeout]
                    IN  IF idle THEN <<entry>>
                        ELSE IF hist = <<>> \/ Len(hist) >= MaxHist THEN <<>>
                        ELSE Append(hist, entry)
        /\ UNCHANGED <<bindings, sequence_timeout, now>>
        /\ UNCHANGED otherThanMatcher

MatcherNext ==
    \/ \E b \in Catalog : Register(b)
    \/ ClearBindings
    \/ ResetSequence
    \/ \E timeout \in 1..MaxTimeout : SetSequenceTimeout(timeout)
    \/ Tick
    \/ \E event \in KeyEvents : Process(event)

\* KeySequenceBuilder::binding, and key, simple_key and char_key alike.
BuilderBinding(binding) ==
    /\ Len(seq_builder) < MaxSeqLen
    /\ seq_builder' = Append(seq_builder, binding)
    /\ UNCHANGED <<made>>
    /\ UNCHANGED otherThanSequence

\* KeySequenceBuilder::build: the builder is consumed.
BuilderBuild ==
    /\ made' = KeySequenceNew(seq_builder)
    /\ seq_builder' = <<>>
    /\ UNCHANGED otherThanSequence

\* KeySequence::new
CallKeySequenceNew(keys) ==
    /\ made' = KeySequenceNew(keys)
    /\ UNCHANGED <<seq_builder>>
    /\ UNCHANGED otherThanSequence

\* From<Vec<KeyBinding>> for KeySequence
CallFromVec(keys) ==
    /\ made' = KeySequenceNew(keys)
    /\ UNCHANGED <<seq_builder>>
    /\ UNCHANGED otherThanSequence

\* KeySequence::single
CallKeySequenceSingle(binding) ==
    /\ made' = KeySequenceSingle(binding)
    /\ UNCHANGED <<seq_builder>>
    /\ UNCHANGED otherThanSequence

\* parse_key_sequence
CallParseKeySequence(raw) ==
    /\ made' = IF ParsedKeyStrings[raw].ok
               THEN Made(ParsedKeyStrings[raw].value[1])
               ELSE NotMade
    /\ UNCHANGED <<seq_builder>>
    /\ UNCHANGED otherThanSequence

\* InputMatcher::register of the sequence made.
RegisterMade(action) ==
    /\ made.value /= None
    /\ Register(RegisteredBinding(made.value[1], action))

\* KeyBindingsBuilder::bind_sequence of the sequence made.
BindMade(action) ==
    /\ made.value /= None
    /\ BindSequence(made.value[1], action)

SequenceNext ==
    \/ BuilderBinding(KeyG)
    \/ BuilderBuild
    \/ \E keys \in KeyVecs(MaxSeqLen) : CallKeySequenceNew(keys)
    \/ \E keys \in KeyVecs(MaxSeqLen) : CallFromVec(keys)
    \/ CallKeySequenceSingle(KeyG)
    \/ \E raw \in KeyStrings : CallParseKeySequence(raw)
    \/ RegisterMade("click")
    \/ BindMade("click")
    \/ Build

\* FocusRing::register
FocusRingRegister(id, order) ==
    /\ focus_ring' = RingRegister(focus_ring, id, order)
    /\ registered' = IF RingContains(focus_ring, id) THEN registered
                     ELSE Append(registered, id)
    /\ registered_last' =
           Append(SelectSeq(registered_last, LAMBDA r : r /= id), id)
    /\ UNCHANGED otherThanRing

\* FocusRing::unregister
FocusRingUnregister(id) ==
    /\ focus_ring' = RingUnregister(focus_ring, id).ring
    /\ registered' = SelectSeq(registered, LAMBDA r : r /= id)
    /\ registered_last' = SelectSeq(registered_last, LAMBDA r : r /= id)
    /\ UNCHANGED otherThanRing

\* FocusRing::next
FocusRingNext ==
    /\ focus_ring' = RingNext(focus_ring).ring
    /\ UNCHANGED <<registered, registered_last>>
    /\ UNCHANGED otherThanRing

\* FocusRing::prev
FocusRingPrev ==
    /\ focus_ring' = RingPrev(focus_ring).ring
    /\ UNCHANGED <<registered, registered_last>>
    /\ UNCHANGED otherThanRing

\* FocusRing::focus
FocusRingFocus(id) ==
    /\ focus_ring' = RingFocus(focus_ring, id).ring
    /\ UNCHANGED <<registered, registered_last>>
    /\ UNCHANGED otherThanRing

\* FocusRing::clear_focus
FocusRingClearFocus ==
    /\ focus_ring' = RingClearFocus(focus_ring)
    /\ UNCHANGED <<registered, registered_last>>
    /\ UNCHANGED otherThanRing

\* FocusRing::clear
FocusRingClear ==
    /\ focus_ring' = NewRing
    /\ registered' = <<>>
    /\ registered_last' = <<>>
    /\ UNCHANGED otherThanRing

RingSpecNext ==
    \/ \E id \in FocusIds, order \in Orders : FocusRingRegister(id, order)
    \/ \E id \in FocusIds : FocusRingUnregister(id)
    \/ FocusRingNext
    \/ FocusRingPrev
    \/ \E id \in FocusIds : FocusRingFocus(id)
    \/ FocusRingClearFocus
    \/ FocusRingClear

\* FocusManager::register
FocusManagerRegister(id, order) ==
    /\ focus_manager' = ManagerRegister(focus_manager, id, order)
    /\ pushed' = Disturbed
    /\ UNCHANGED otherThanManager

\* FocusManager::unregister
FocusManagerUnregister(id) ==
    /\ focus_manager' = ManagerUnregister(focus_manager, id).manager
    /\ pushed' = Disturbed
    /\ UNCHANGED otherThanManager

\* FocusManager::navigate
FocusManagerNavigate(direction) ==
    /\ focus_manager' = Navigate(focus_manager, direction).manager
    /\ UNCHANGED pushed
    /\ UNCHANGED otherThanManager

\* FocusManager::focus_next
FocusManagerFocusNext ==
    /\ focus_manager' = FocusNext(focus_manager).manager
    /\ UNCHANGED pushed
    /\ UNCHANGED otherThanManager

\* FocusManager::focus_prev
FocusManagerFocusPrev ==
    /\ focus_manager' = FocusPrev(focus_manager).manager
    /\ UNCHANGED pushed
    /\ UNCHANGED otherThanManager

\* FocusManager::focus
FocusManagerFocus(id) ==
    /\ focus_manager' = ManagerFocus(focus_manager, id).manager
    /\ UNCHANGED pushed
    /\ UNCHANGED otherThanManager

\* FocusManager::clear_focus
FocusManagerClearFocus ==
    /\ focus_manager' = ManagerClearFocus(focus_manager)
    /\ pushed' = Disturbed
    /\ UNCHANGED otherThanManager

\* FocusManager::push_trap
FocusManagerPushTrap(trap) ==
    /\ Len(focus_manager.traps) < MaxTraps
    /\ focus_manager' = PushTrap(focus_manager, trap)
    /\ pushed' = Append(pushed, Some(ManagerCurrent(focus_manager)))
    /\ UNCHANGED otherThanManager

\* FocusManager::pop_trap
FocusManagerPopTrap ==
    /\ focus_manager' = PopTrap(focus_manager).manager
    /\ pushed' = SubSeq(pushed, 1, Len(pushed) - 1)
    /\ UNCHANGED otherThanManager

\* FocusManager::save_focus
FocusManagerSaveFocus ==
    /\ Len(focus_manager.restoration_stack) < MaxSaved
    /\ focus_manager' = SaveFocus(focus_manager)
    /\ pushed' = Disturbed
    /\ UNCHANGED otherThanManager

\* FocusManager::restore_focus
FocusManagerRestoreFocus ==
    /\ focus_manager' = RestoreFocus(focus_manager).manager
    /\ pushed' = Disturbed
    /\ UNCHANGED otherThanManager

\* FocusManager::clear
FocusManagerClear ==
    /\ focus_manager' = NewManager
    /\ pushed' = <<>>
    /\ UNCHANGED otherThanManager

ManagerNext ==
    \/ \E id \in PageIds : FocusManagerRegister(id, 0)
    \/ \E id \in PageIds : FocusManagerUnregister(id)
    \/ \E direction \in Directions : FocusManagerNavigate(direction)
    \/ FocusManagerFocusNext
    \/ FocusManagerFocusPrev
    \/ \E id \in ManagerIds : FocusManagerFocus(id)
    \/ FocusManagerClearFocus
    \/ \E trap \in TrapInputs : FocusManagerPushTrap(trap)
    \/ FocusManagerPopTrap
    \/ FocusManagerSaveFocus
    \/ FocusManagerRestoreFocus
    \/ FocusManagerClear

\* EventLoopConfig::handle_signals
HandleSignals(handle) ==
    /\ loop_pc = "new"
    /\ loop_config' = [loop_config EXCEPT !.handle_signals = handle]
    /\ UNCHANGED <<loop_pc, channel, loop_event, control, signal>>
    /\ UNCHANGED otherThanLoop

\* A task sends an event on a clone of the loop's sender; the channel holds
\* channel_buffer_size events.
Send(event) ==
    /\ Len(channel) < MaxBuffer
    /\ channel' = Append(channel, event)
    /\ UNCHANGED <<loop_config, loop_pc, loop_event, control, signal>>
    /\ UNCHANGED otherThanLoop

\* SIGINT or SIGTERM is raised for the process.
RaiseSignal ==
    /\ signal = "none"
    /\ signal' = "raised"
    /\ UNCHANGED <<loop_config, loop_pc, channel, loop_event, control>>
    /\ UNCHANGED otherThanLoop

\* EventLoop::run and run_headless up to the loop: ShutdownSignal::new may
\* fail, and the call then returns its error.
Run(headless, registered_ok) ==
    /\ loop_pc = "new"
    /\ loop_config' = [loop_config EXCEPT !.headless = headless]
    /\ loop_pc' = IF loop_config.handle_signals /\ ~registered_ok
                  THEN "failed" ELSE "select"
    /\ UNCHANGED <<channel, loop_event, control, signal>>
    /\ UNCHANGED otherThanLoop

\* select!: terminal_events.next(), in run only; an Err is logged and the
\* loop continues.
SelectTerminal(is_ok) ==
    /\ loop_pc = "select"
    /\ ~loop_config.headless
    /\ loop_pc' = IF is_ok THEN "handle" ELSE "select"
    /\ loop_event' = IF is_ok THEN Some("Terminal") ELSE loop_event
    /\ UNCHANGED <<loop_config, channel, control, signal>>
    /\ UNCHANGED otherThanLoop

\* select!: tick_interval.tick()
SelectTick ==
    /\ loop_pc = "select"
    /\ loop_pc' = "handle"
    /\ loop_event' = Some("Tick")
    /\ UNCHANGED <<loop_config, channel, control, signal>>
    /\ UNCHANGED otherThanLoop

\* select!: self.rx.recv()
SelectChannel ==
    /\ loop_pc = "select"
    /\ channel /= <<>>
    /\ loop_pc' = "handle"
    /\ loop_event' = Some(Head(channel))
    /\ channel' = Tail(channel)
    /\ UNCHANGED <<loop_config, control, signal>>
    /\ UNCHANGED otherThanLoop

\* select!: shutdown.recv(), pending forever without handle_signals
SelectShutdown ==
    /\ loop_pc = "select"
    /\ loop_config.handle_signals
    /\ signal = "raised"
    /\ signal' = "received"
    /\ loop_pc' = "handle"
    /\ loop_event' = Some("Shutdown")
    /\ UNCHANGED <<loop_config, channel, control>>
    /\ UNCHANGED otherThanLoop

\* handler(event).await returns flow, and the loop breaks if it should exit.
HandlerReturns(flow) ==
    /\ loop_pc = "handle"
    /\ control' = Some(flow)
    /\ loop_pc' = IF ShouldExit(flow) THEN "returned" ELSE "select"
    /\ UNCHANGED <<loop_config, channel, loop_event, signal>>
    /\ UNCHANGED otherThanLoop

LoopNext ==
    \/ \E handle \in BOOLEAN : HandleSignals(handle)
    \/ \E event \in SentEvents : Send(event)
    \/ RaiseSignal
    \/ \E headless, registered_ok \in BOOLEAN : Run(headless, registered_ok)
    \/ \E is_ok \in BOOLEAN : SelectTerminal(is_ok)
    \/ SelectTick
    \/ SelectChannel
    \/ SelectShutdown
    \/ \E flow \in ControlFlows : HandlerReturns(flow)

\* Time passes between two calls on the debouncer.
ClockTick ==
    /\ clock < MaxClock
    /\ clock' = clock + 1
    /\ UNCHANGED <<debouncer, last_call, dcall>>
    /\ UNCHANGED otherThanDebouncer

\* Debouncer::should_process
CallShouldProcess ==
    LET r == ShouldProcess(debouncer, clock)
    IN  /\ debouncer' = r.debouncer
        /\ last_call' = Some(clock)
        /\ dcall' = [at |-> clock, previous |-> last_call,
                     delay |-> debouncer.delay, returned |-> Some(r.returned)]
        /\ UNCHANGED clock
        /\ UNCHANGED otherThanDebouncer

\* Debouncer::reset
DebouncerReset ==
    /\ debouncer' = [debouncer EXCEPT !.last_event = None]
    /\ last_call' = None
    /\ dcall' = NoDCall
    /\ UNCHANGED clock
    /\ UNCHANGED otherThanDebouncer

\* Debouncer::set_delay
SetDelay(delay) ==
    /\ debouncer' = [debouncer EXCEPT !.delay = delay]
    /\ dcall' = NoDCall
    /\ UNCHANGED <<clock, last_call>>
    /\ UNCHANGED otherThanDebouncer

DebouncerNext ==
    \/ ClockTick
    \/ CallShouldProcess
    \/ DebouncerReset
    \/ \E delay \in 1..MaxDelay : SetDelay(delay)

\* TextInput::with_max_length, on the input just created
WithMaxLength(max) ==
    /\ text_input = NewTextInput
    /\ text_input' = [text_input EXCEPT !.max_length = Some(max)]
    /\ UNCHANGED taction
    /\ UNCHANGED otherThanInput

\* TextInput::set_text
SetText(text) ==
    /\ text_input' = SetTextOf(text_input, text)
    /\ taction' = None
    /\ UNCHANGED otherThanInput

\* Component::update; an input without max_length is kept to MaxText chars.
TextInputUpdate(msg) ==
    /\ CharCount(Update(text_input, msg).input.text) <= MaxText
    /\ text_input' = Update(text_input, msg).input
    /\ taction' = Update(text_input, msg).action
    /\ UNCHANGED otherThanInput

InputNext ==
    \/ \E max \in 1..MaxLength : WithMaxLength(max)
    \/ \E text \in Texts(MaxText) : SetText(text)
    \/ \E msg \in Messages(MaxText) : TextInputUpdate(msg)

MatcherSpec == MatcherInit /\ [][MatcherNext]_vars

\* The router specification: the matcher is left as constructed.
RouterSpecInit ==
    /\ MatcherInit
    /\ sequence_timeout = 1

RouterSpec == RouterSpecInit /\ [][RouterNext]_vars

\* The parser specification: matcher and router are left as constructed.
ParserSpec == RouterSpecInit /\ [][ParserNext]_vars

\* The registry specification: matcher and router are left as constructed.
RegistrySpec == RouterSpecInit /\ [][RegistryNext]_vars

\* The builder specification: matcher and router are left as constructed.
BuilderSpec == RouterSpecInit /\ [][BuilderNext]_vars

\* The sequence specification: sequences are constructed and handed to a
\* matcher and a registry builder.
SequenceSpec == RouterSpecInit /\ [][SequenceNext]_vars

RingSpec == RouterSpecInit /\ [][RingSpecNext]_vars

ManagerSpec == RouterSpecInit /\ [][ManagerNext]_vars

LoopSpec == RouterSpecInit /\ [][LoopNext]_vars

DebouncerSpec == RouterSpecInit /\ [][DebouncerNext]_vars

InputSpec == RouterSpecInit /\ [][InputNext]_vars

TypeOK ==
    /\ Len(bindings) <= MaxBindings
    /\ now \in 0..MaxTime

\* ------------------------------------------------------------------------
\* Vocabulary of the matcher properties
\* ------------------------------------------------------------------------
Registered == { bindings[i] : i \in 1..Len(bindings) }

IsProperPrefix(p, s) == Len(p) < Len(s) /\ SubSeq(s, 1, Len(p)) = p

\* Some registered sequence is strictly longer than p and starts with p.
SomeLonger(p) == \E b \in Registered : IsProperPrefix(p, b.sequence)

\* Some registered sequence equals p.
SomeEqual(p) == \E b \in Registered : b.sequence = p

\* The actions registered for the sequence p.
ActionsOf(p) == { b.action : b \in { c \in Registered : c.sequence = p } }

Idle == pending_keys = <<>> /\ last_key_time = None

Processed == op = "process"

\* The outcome of a key evaluated alone, as the first key of a fresh sequence.
AloneOutcome(key) ==
    IF SomeLonger(<<key>>)
    THEN call.result = Pending /\ pending_keys = <<key>> /\ last_key_time /= None
    ELSE IF SomeEqual(<<key>>)
         THEN /\ call.result.tag = "Matched"
              /\ call.result.action \in ActionsOf(<<key>>)
              /\ Idle
         ELSE call.result = NoMatch /\ Idle

\* The last k process calls of the current attempt.
Recent(k) == SubSeq(hist, Len(hist) - k + 1, Len(hist))

\* The last k calls fed the first k keys of s to a matcher that was idle
\* before the first of them, each later key within the timeout.
Fed(s, k) ==
    /\ k <= Len(hist)
    /\ k <= Len(s)
    /\ Recent(k)[1].idle
    /\ \A i \in 1..k : Recent(k)[i].key = s[i]
    /\ \A i \in 2..k : Recent(k)[i].within

GBindings == { RegisteredBinding(<<KeyG>>, "single_g"),
               RegisteredBinding(<<KeyG, KeyG>>, "double_g") }

SaveBindings == { RegisteredBinding(<<KeyCtrlX, KeyCtrlS>>, "save_all"),
                  RegisteredBinding(<<KeyCtrlS>>, "save") }

\* ------------------------------------------------------------------------
\* Matcher properties
\* ------------------------------------------------------------------------
\* C1: once the key is appended, process returns Pending whenever a
\* registered sequence is strictly longer than the pending buffer and starts
\* with it, also when another registered sequence equals the buffer; with
\* 'g' and 'g g' registered the first g is Pending and a second g within the
\* timeout is Matched with the action of 'g g'.
C1_PartialMatchPriority ==
    /\ (Processed /\ SomeLonger(call.appended)) =>
           (call.result = Pending /\ pending_keys = call.appended)
    /\ (Registered = GBindings /\ Fed(<<KeyG, KeyG>>, 1)) =>
           Recent(1)[1].result = Pending
    /\ (Registered = GBindings /\ Fed(<<KeyG, KeyG>>, 2)) =>
           Recent(2)[2].result = Matched("double_g")

C1_Witness ==
    /\ Registered = GBindings
    /\ Fed(<<KeyG, KeyG>>, 2)
    /\ Recent(2)[1].result = Pending
    /\ Recent(2)[2].result = Matched("double_g")

\* C2: feeding the keys of a registered sequence that is no proper prefix of
\* another registered sequence to an idle matcher, every gap within the
\* timeout, returns Pending for every key but the last and Matched with an
\* action registered for the sequence on the last, and leaves the matcher idle.
C2_SequenceCompletes ==
    \A b \in Registered :
        (~SomeLonger(b.sequence)) =>
            \A k \in 1..Len(b.sequence) :
                Fed(b.sequence, k) =>
                    IF k < Len(b.sequence)
                    THEN Recent(k)[k].result = Pending
                    ELSE /\ Recent(k)[k].result.tag = "Matched"
                         /\ Recent(k)[k].result.action \in ActionsOf(b.sequence)
                         /\ Idle

C2_Witness ==
    /\ Fed(<<KeyCtrlX, KeyG, KeyCtrlS>>, 3)
    /\ hist[1].result = Pending
    /\ hist[2].result = Pending
    /\ hist[3].result = Matched("abc")
    /\ Idle

\* C3: a call made more than the timeout after the last event of a pending
\* sequence drops the pending keys and takes the new key as the first of a
\* fresh sequence; a call made within the timeout keeps them. With
\* 'Ctrl+x Ctrl+s' bound to save_all and 'Ctrl+s' to save, Ctrl+x and then,
\* after more than the timeout, Ctrl+s returns Matched(save).
C3_TimeoutCheck ==
    /\ (Processed /\ call.pre /= <<>> /\ call.elapsed /= None) =>
           IF call.elapsed[1] > sequence_timeout
           THEN call.appended = <<call.key>> /\ AloneOutcome(call.key)
           ELSE call.appended = Append(call.pre, call.key)
    /\ (/\ Processed
        /\ Registered = SaveBindings
        /\ call.pre = <<KeyCtrlX>>
        /\ call.key = KeyCtrlS
        /\ call.elapsed /= None
        /\ call.elapsed[1] > sequence_timeout) =>
           call.result = Matched("save")

C3_Witness ==
    /\ Processed
    /\ Registered = SaveBindings
    /\ call.pre = <<KeyCtrlX>>
    /\ call.key = KeyCtrlS
    /\ call.elapsed /= None
    /\ call.elapsed[1] > sequence_timeout
    /\ call.result = Matched("save")

\* C4: when the buffer with the new key appended holds more than one key and
\* neither starts nor equals a registered sequence, process evaluates the new
\* key alone: Pending with the key as the only pending key if it starts a
\* longer registered sequence, else Matched and idle if it is a registered
\* single-key sequence, else NoMatch and idle.
C4_FallbackRestart ==
    (/\ Processed
     /\ Len(call.appended) > 1
     /\ ~SomeLonger(call.appended)
     /\ ~SomeEqual(call.appended)) => AloneOutcome(call.key)

C4_Witness ==
    /\ Processed
    /\ call.appended = <<KeyCtrlX, KeyCtrlS>>
    /\ ~SomeLonger(call.appended)
    /\ ~SomeEqual(call.appended)
    /\ call.result = Matched("save")
    /\ Idle

\* C5: a process call that returns NoMatch leaves the matcher idle, and a
\* matcher without bindings returns NoMatch for every event.
C5_NoMatchIsIdle ==
    /\ (Processed /\ call.result = NoMatch) => Idle
    /\ (Processed /\ bindings = <<>>) => call.result = NoMatch

C5_Witness ==
    /\ Processed
    /\ call.result = NoMatch
    /\ Len(call.appended) > 1
    /\ Idle

\* C6: with 'g' and 'g g' registered, g and then the unbound key x returns
\* NoMatch for x, and one of the two calls reports the action of 'g'.
C6_FirstGNeverLost ==
    (Registered = GBindings /\ Fed(<<KeyG, KeyX>>, 2)) =>
        /\ Recent(2)[2].result = NoMatch
        /\ \E i \in 1..2 : Recent(2)[i].result = Matched("single_g")

\* ------------------------------------------------------------------------
\* Vocabulary of the router properties
\* ------------------------------------------------------------------------
Dispatched == rop \in {"dispatch", "dispatch_to_path"}

IsHandle(e) == e.kind = "handle"
IsBefore(e) == e.kind = "before"
IsAfter(e) == e.kind = "after"

\* The handler calls, the before calls and the after calls of the dispatch.
Handles == SelectSeq(log, IsHandle)
Befores == SelectSeq(log, IsBefore)
Afters == SelectSeq(log, IsAfter)

\* Some middleware stopped the action.
Stopped == \E i \in 1..Len(log) : IsBefore(log[i]) /\ log[i].before = MwStop

\* Some handler returned Handled in the Capture phase.
CaptureHandled ==
    \E i \in 1..Len(log) :
        IsHandle(log[i]) /\ log[i].phase = "Capture" /\ log[i].result = "Handled"

\* The id of the node at depth d of the path of the dispatch.
PathNode(d) == SubSeq(dargs.path, 1, d)

\* The action after the first i middlewares: each replaces it or passes it on.
RECURSIVE ActionAfter(_)
ActionAfter(i) ==
    IF i = 0 THEN dargs.action
    ELSE IF Befores[i].before.action /= None THEN Befores[i].before.action[1]
         ELSE ActionAfter(i - 1)

\* ------------------------------------------------------------------------
\* Router properties
\* ------------------------------------------------------------------------
\* C7: when a handler returns Handled in the Capture phase, no handler below
\* it is called in either phase, no handler is called in the Bubble phase,
\* and the result names that handler and the Capture phase.
C7_CapturePreemption ==
    \A i \in 1..Len(log) :
        (IsHandle(log[i]) /\ log[i].phase = "Capture" /\ log[i].result = "Handled") =>
            /\ \A j \in 1..Len(log) :
                   IsHandle(log[j]) =>
                       /\ log[j].phase = "Capture"
                       /\ j <= i
                       /\ ~IsProperPrefix(log[i].id, log[j].id)
            /\ dresult.handled_in = Some("Capture")
            /\ dresult.handled_by = Some(log[i].id)

C7_Witness ==
    /\ rop = "dispatch"
    /\ Len(dargs.path) = 2
    /\ Len(Handles) = 1
    /\ Handles[1].result = "Handled"
    /\ dresult = HandledBy(<<>>, "Capture")

\* C8: when no handler handles the action in Capture, the handlers on the
\* path are called in Capture from the root to the target and then in Bubble
\* from the target to the root; the first Handled in Bubble ends the calls
\* and is reported with the Bubble phase.
C8_PropagationOrder ==
    (/\ Dispatched
     /\ dargs.valid = Len(dargs.path)
     /\ ~Stopped
     /\ ~CaptureHandled) =>
        LET hs == Handles
            n == Len(dargs.path)
            bs == SubSeq(hs, n + 2, Len(hs))
        IN  /\ Len(hs) >= n + 2
            /\ Len(hs) <= 2 * n + 2
            /\ \A d \in 0..n :
                   hs[d + 1].phase = "Capture" /\ hs[d + 1].id = PathNode(d)
            /\ \A k \in 1..Len(bs) :
                   /\ bs[k].phase = "Bubble"
                   /\ bs[k].id = PathNode(n - k + 1)
                   /\ k < Len(bs) => bs[k].result /= "Handled"
            /\ IF bs[Len(bs)].result = "Handled"
               THEN dresult = HandledBy(bs[Len(bs)].id, "Bubble")
               ELSE Len(bs) = n + 1 /\ dresult = NotHandled

C8_Witness ==
    /\ rop = "dispatch"
    /\ Len(dargs.path) = 2
    /\ Len(Handles) = 5
    /\ Handles[4].result /= "Handled"
    /\ dresult = HandledBy(PathNode(1), "Bubble")

\* C9: when a middleware's before returns Stop, it is the last call of the
\* dispatch: no handler, no after and no later before is called, and the
\* result is not handled.
C9_MiddlewareStop ==
    \A i \in 1..Len(log) :
        (IsBefore(log[i]) /\ log[i].before = MwStop) =>
            /\ i = Len(log)
            /\ \A j \in 1..Len(log) : IsBefore(log[j])
            /\ ~WasHandled(dresult)
            /\ dresult.handled_by = None
            /\ dresult.handled_in = None

C9_Witness ==
    /\ rop = "dispatch"
    /\ Len(middleware) = 2
    /\ Len(log) = 2
    /\ log[1].before = MwContinue(None)
    /\ log[2].before = MwStop
    /\ dresult = NotHandled

\* C10: when no middleware stops, before is called once on every middleware
\* in registration order ahead of the handlers, each middleware sees the
\* action as the middlewares before it left it, and every handler is called
\* with the action the last middleware left.
C10_BeforeChainOrder ==
    (Dispatched /\ ~Stopped) =>
        /\ Len(Befores) = Len(middleware)
        /\ \A i \in 1..Len(middleware) :
               /\ IsBefore(log[i])
               /\ log[i].mw = middleware[i]
               /\ log[i].action = ActionAfter(i - 1)
        /\ \A j \in 1..Len(log) :
               IsHandle(log[j]) => log[j].action = ActionAfter(Len(middleware))

C10_Witness ==
    /\ rop = "dispatch"
    /\ Len(middleware) = 2
    /\ ~Stopped
    /\ log[1].before = MwContinue(Some("test"))
    /\ log[1].action = "click"
    /\ log[2].before = MwContinue(None)
    /\ log[2].action = "test"
    /\ \E j \in 1..Len(log) : IsHandle(log[j]) /\ log[j].action = "test"

\* C11: when no middleware stops, after is called once on every middleware in
\* reverse registration order, after the last handler call, with the action
\* the handlers received and the HandleResult of the dispatch, handled or not.
C11_AfterChain ==
    (Dispatched /\ ~Stopped) =>
        LET n == Len(middleware)
        IN  /\ Len(Afters) = n
            /\ \A k \in 1..n :
                   LET e == log[Len(log) - n + k]
                   IN  /\ IsAfter(e)
                       /\ e.mw = middleware[n - k + 1]
                       /\ e.action = ActionAfter(n)
                       /\ e.result = dresult.result
                       /\ \A j \in 1..Len(log) :
                              IsHandle(log[j]) => log[j].action = e.action

C11_Witness ==
    /\ rop = "dispatch"
    /\ Len(middleware) = 2
    /\ ~Stopped
    /\ dresult = NotHandled
    /\ Befores[1].before = MwContinue(Some("test"))
    /\ Len(Handles) >= 2
    /\ Len(Afters) = 2
    /\ Afters[1].mw = 2
    /\ Afters[2].mw = 1
    /\ Afters[1].action = "test"
    /\ Afters[1].result = "Ignored"

\* C12: when an index of the path names no child of the node reached, the
\* dispatch still returns a result: Capture calls the nodes down to the last
\* one the path reaches and no further, Bubble starts at that node, no node
\* past the invalid index is called, and the result is not handled unless one
\* of the nodes reached returned Handled.
C12_StalePath ==
    (Dispatched /\ ~Stopped /\ dargs.valid < Len(dargs.path)) =>
        LET v == dargs.valid
            hs == Handles
        IN  /\ dresult /= NoDispatch
            /\ \A j \in 1..Len(hs) :
                   Len(hs[j].id) <= v /\ hs[j].id = PathNode(Len(hs[j].id))
            /\ ~CaptureHandled =>
                   /\ Len(hs) >= v + 2
                   /\ \A d \in 0..v :
                          hs[d + 1].phase = "Capture" /\ hs[d + 1].id = PathNode(d)
                   /\ hs[v + 2].phase = "Bubble"
                   /\ hs[v + 2].id = PathNode(v)
            /\ (\A j \in 1..Len(hs) : hs[j].result /= "Handled") =>
                   Len(hs) = 2 * v + 2 /\ dresult = NotHandled
            /\ WasHandled(dresult) =>
                   \E j \in 1..Len(hs) :
                       /\ hs[j].result = "Handled"
                       /\ dresult = HandledBy(hs[j].id, hs[j].phase)

C12_Witness ==
    /\ rop = "dispatch_to_path"
    /\ dargs.path = <<0, 1, 0>>
    /\ dargs.valid = 1
    /\ Len(Handles) = 4
    /\ Handles[2].id = <<0>>
    /\ Handles[3].id = <<0>>
    /\ Handles[3].phase = "Bubble"
    /\ dresult = NotHandled

\* C13: dispatch_to_path given the focus path of the tree (the empty path
\* when no node is focused) makes the same middleware and handler calls and
\* returns the same DispatchResult as dispatch on the same tree and action.
C13_DispatchToPathSameEngine ==
    (Dispatched /\ twin.same) => (twin.log = log /\ twin.result = dresult)

C13_Witness ==
    /\ rop = "dispatch"
    /\ twin.same
    /\ Len(middleware) = 2
    /\ Len(dargs.path) = 2
    /\ Len(Afters) = 2
    /\ twin.log = log
    /\ twin.result = HandledBy(<<0>>, "Bubble")

\* Depth-first pre-order of the positions of a tree: a node comes before its
\* descendants, and a child with its subtree before the children after it.
PreorderBefore(p, q) ==
    \/ Len(p) <= Len(q) /\ SubSeq(q, 1, Len(p)) = p
    \/ \E i \in 1..Min(Len(p), Len(q)) :
           SubSeq(p, 1, i - 1) = SubSeq(q, 1, i - 1) /\ p[i] < q[i]

\* The positions of the nodes of a tree that report focus.
FocusedPaths(handler) == { p \in ValidPaths(handler) : NodeAt(handler, p).focused }

\* C14: find_focus_path returns the empty path when the node itself is
\* focused, None exactly when no node of the tree is focused, and otherwise
\* the path to a focused node that comes first in depth-first pre-order among
\* all the focused nodes; the path names a node of the tree.
C14_FindFocusPath ==
    rop = "dispatch" =>
        LET root == dargs.root
            found == dargs.found
        IN  /\ root.focused => found = Some(<<>>)
            /\ found = None <=> FocusedPaths(root) = {}
            /\ found /= None =>
                   /\ found[1] \in ValidPaths(root)
                   /\ NodeAt(root, found[1]).focused
                   /\ \A q \in FocusedPaths(root) : PreorderBefore(found[1], q)

C14_Witness ==
    /\ rop = "dispatch"
    /\ ~dargs.root.focused
    /\ FocusedPaths(dargs.root) = {<<0>>, <<1>>}
    /\ dargs.found = Some(<<0>>)

\* The action of the latest registration of the sequence p.
LastRegistered(p) ==
    LET last == CHOOSE i \in 1..Len(bindings) :
                    /\ bindings[i].sequence = p
                    /\ \A j \in (i + 1)..Len(bindings) : bindings[j].sequence /= p
    IN  bindings[last].action

\* C17: when a sequence was registered twice on the matcher with different
\* actions, completing it returns Matched with the action registered later.
C17_LastWriteWinsMatcher ==
    (/\ Processed
     /\ ~call.restarted
     /\ call.result.tag = "Matched"
     /\ Cardinality(ActionsOf(call.appended)) > 1) =>
        call.result.action = LastRegistered(call.appended)

\* ------------------------------------------------------------------------
\* Parser properties
\* ------------------------------------------------------------------------
\* A parse was made.
Parsed == parsed /= NoParse

\* The tokens of a key string: the non-empty parts between the separators.
TokensOf(raw) ==
    LET parts == Split(Trim(raw), Separators)
        trimmed == [i \in 1..Len(parts) |-> Trim(parts[i])]
    IN  SelectSeq(trimmed, IsNonEmpty)

IsModifierName(token) == ParseModifier(token) /= None
IsKeyName(token) == ParseKeyCode(token) /= None

\* The union of the modifiers the tokens name.
RECURSIVE ModifiersOf(_)
ModifiersOf(tokens) ==
    IF tokens = <<>> THEN NONE
    ELSE (IF IsModifierName(Head(tokens)) THEN ParseModifier(Head(tokens))[1] ELSE NONE)
         \cup ModifiersOf(Tail(tokens))

\* C20: parse_key_binding fails with EmptyInput on an empty string, with
\* InvalidModifier when a token other than the last is no modifier name, with
\* InvalidKey when the last token is neither a modifier nor a key name, and
\* with NoKeySpecified when no token is a key; when it succeeds the key is
\* the last token and the modifiers are the union of the modifier tokens.
C20_TokenClassification ==
    Parsed =>
        LET tokens == TokensOf(parse_input)
            n == Len(tokens)
        IN  /\ Trim(parse_input) = <<>> => parsed = Err(EmptyInputError)
            /\ (\E i \in 1..(n - 1) : ~IsModifierName(tokens[i])) =>
                   ~parsed.ok /\ parsed.error[1].kind = "InvalidModifier"
            /\ parsed.ok =>
                   /\ n >= 1
                   /\ \A i \in 1..(n - 1) : IsModifierName(tokens[i])
                   /\ ParseKeyCode(tokens[n]) = Some(parsed.value[1].key)
                   /\ parsed.value[1].modifiers = ModifiersOf(tokens)

\* ------------------------------------------------------------------------
\* Vocabulary of the registry properties
\* ------------------------------------------------------------------------
\* The scopes of a registry: the global one and one per context name.
Scopes == {None} \cup { Some(c) : c \in ContextNames }

\* The action bound to sequence s in one scope of kb itself, if any.
BoundIn(kb, scope, s) ==
    IF scope = None THEN Get(kb.global, s)
    ELSE IF scope[1] \in DOMAIN kb.contexts THEN Get(kb.contexts[scope[1]], s)
    ELSE None

\* ------------------------------------------------------------------------
\* Registry properties
\* ------------------------------------------------------------------------
\* C15: lookup(Some(c), s) returns the action bound to s in context c if
\* there is one, otherwise the action bound to s globally, also when there
\* is no context c, otherwise None; lookup(None, s) returns what the global
\* map binds to s and nothing else.
C15_TwoLevelLookup ==
    bcall.op = "lookup" =>
        LET c == bcall.context
            s == bcall.sequence[1]
            in_c == IF c = None THEN None ELSE BoundIn(registry, c, s)
            in_global == BoundIn(registry, None, s)
        IN  /\ in_c /= None => bcall.found = in_c
            /\ (in_c = None /\ in_global /= None) => bcall.found = in_global
            /\ (in_c = None /\ in_global = None) => bcall.found = None

\* A lookup in a context that binds the sequence to another action than the
\* global map does.
C15_Witness ==
    /\ bcall.op = "lookup"
    /\ bcall.context /= None
    /\ BoundIn(registry, bcall.context, bcall.sequence[1]) /= None
    /\ BoundIn(registry, None, bcall.sequence[1]) /= None
    /\ BoundIn(registry, bcall.context, bcall.sequence[1])
         /= BoundIn(registry, None, bcall.sequence[1])
    /\ bcall.found = BoundIn(registry, bcall.context, bcall.sequence[1])

\* The key sequence a key string that parses stands for.
SequenceOf(k) == ParsedKeyStrings[k].value[1]

\* Binding key string k to a1 and then to a2 at the top level of the builder
\* leaves the global map binding its sequence to a2, and every other sequence
\* and every context as they were.
TwiceInGlobal(k, a1, a2) ==
    LET twice == BuilderBind(BuilderBind(builder, a1, k), a2, k)
    IN  /\ BoundIn(BuiltFrom(twice), None, SequenceOf(k)) = Some(a2)
        /\ \A t \in KeySequences \ {SequenceOf(k)} :
               BoundIn(BuiltFrom(twice), None, t) = BoundIn(BuiltFrom(builder), None, t)
        /\ twice.contexts = builder.contexts

\* The same inside the closure of a context, on the map of the ContextBuilder.
TwiceInClosure(k, a1, a2) ==
    LET before == ctx[1].builder
        twice == ContextBind(ContextBind(before, a1, k), a2, k)
    IN  /\ Get(twice.bindings, SequenceOf(k)) = Some(a2)
        /\ \A t \in KeySequences \ {SequenceOf(k)} :
               Get(twice.bindings, t) = Get(before.bindings, t)

\* context(name, f) returns after f bound a sequence that context name bound
\* already: the context binds what f bound, and every other sequence of the
\* context and every other scope are as they were.
AgainInContext ==
    (ctx /= None /\ ctx' = None) =>
        LET name == ctx[1].name
            bound == ctx[1].builder.bindings
            old == BuiltFrom(builder)
            new == BuiltFrom(builder')
        IN  (\E s \in DOMAIN bound : BoundIn(old, Some(name), s) /= None) =>
                \A scope \in Scopes, t \in KeySequences :
                    BoundIn(new, scope, t) =
                        IF scope = Some(name) /\ t \in DOMAIN bound
                        THEN Some(bound[t])
                        ELSE BoundIn(old, scope, t)

\* C16: binding the same KeySequence twice in the same scope, the global one
\* or the same context, leaves one entry for the sequence in that scope, with
\* the action of the later registration; the bindings of other sequences and
\* of other scopes are unchanged.
C16_LastWriteWinsRegistry ==
    [][/\ (~built /\ ctx = None) =>
            \A k \in ValidKeyStrings, a1 \in Actions, a2 \in Actions :
                TwiceInGlobal(k, a1, a2)
       /\ ctx /= None =>
            \A k \in ValidKeyStrings, a1 \in Actions, a2 \in Actions :
                TwiceInClosure(k, a1, a2)
       /\ AgainInContext]_vars

\* C18: after a.merge(b), in every scope and for every sequence, a binds what
\* b bound there when b bound something and what a bound before otherwise;
\* a has the contexts it had and those of b.
C18_Merge ==
    bcall.op = "merge" =>
        LET a == bcall.self[1]
            b == bcall.other[1]
        IN  /\ \A scope \in Scopes, s \in KeySequences :
                   BoundIn(registry, scope, s) =
                       IF BoundIn(b, scope, s) /= None THEN BoundIn(b, scope, s)
                       ELSE BoundIn(a, scope, s)
            /\ DOMAIN registry.contexts = DOMAIN a.contexts \cup DOMAIN b.contexts

\* A merge where a and b have a context of the same name, a binds in it a
\* sequence that b does not, and b binds in it a sequence to an action: both
\* bindings are in the merged context.
C18_Witness ==
    /\ bcall.op = "merge"
    /\ \E c \in DOMAIN bcall.self[1].contexts \cap DOMAIN bcall.other[1].contexts :
           \E s \in DOMAIN bcall.self[1].contexts[c], t \in DOMAIN bcall.other[1].contexts[c] :
               /\ s \notin DOMAIN bcall.other[1].contexts[c]
               /\ BoundIn(registry, Some(c), s) = Some(bcall.self[1].contexts[c][s])
               /\ BoundIn(registry, Some(c), t) = Some(bcall.other[1].contexts[c][t])

\* The errors of the key strings of a list that fail to parse, in order.
RECURSIVE Failures(_, _)
Failures(keys, i) ==
    IF i > Len(keys) THEN <<>>
    ELSE IF ParsedKeyStrings[keys[i]].ok THEN Failures(keys, i + 1)
    ELSE <<ParsedKeyStrings[keys[i]].error[1]>> \o Failures(keys, i + 1)

\* The sequences of the key strings of a list that parse.
Successes(keys) ==
    { SequenceOf(keys[i]) : i \in { j \in 1..Len(keys) : ParsedKeyStrings[keys[j]].ok } }

\* What binding the key strings of a list to an action makes of a map and a
\* list of errors: one error more per failing key string and no binding for
\* it, and a binding to the action for every key string that parses, whatever
\* errors there are.
Accumulated(map_before, errors_before, map_after, errors_after, action, keys) ==
    /\ errors_after = errors_before \o Failures(keys, 1)
    /\ Len(errors_after) = Len(errors_before) + Len(Failures(keys, 1))
    /\ DOMAIN map_after = DOMAIN map_before \cup Successes(keys)
    /\ \A s \in DOMAIN map_after :
           map_after[s] = IF s \in Successes(keys) THEN action ELSE map_before[s]

HeldSequences ==
    { bindings[i].sequence : i \in 1..Len(bindings) }
        \cup DOMAIN builder.global \cup DOMAIN registry.global

\* C21: no KeySequence has zero bindings: new, From<Vec<KeyBinding>> and
\* KeySequenceBuilder::build panic on an empty list, parse_key_sequence
\* returns no sequence rather than an empty one, and every sequence held by
\* a matcher or a registry has at least one binding.
C21_NoEmptySequence ==
    /\ made.value /= None => Len(made.value[1]) >= 1
    /\ \A s \in HeldSequences : Len(s) >= 1

\* The builder was built with no key, the call panicked, and the matcher and
\* the registry hold sequences made before.
C21_Witness ==
    /\ made = Panicked
    /\ bindings /= <<>>
    /\ registry.global /= EmptyMap


\* ------------------------------------------------------------------------
\* C22  Frame of the matcher's sequence state
\* ------------------------------------------------------------------------
\* The operations the claim lists as leaving the sequence state alone.  The
\* read accessors take &self and are no step of the model.
OtherOperation ==
    \/ \E b \in Catalog : Register(b)
    \/ ClearBindings
    \/ \E timeout \in 1..MaxTimeout : SetSequenceTimeout(timeout)

\* C22: the pending buffer, the time of the last event and the timeout are
\* changed only by process and reset_sequence: register, clear_bindings and
\* set_sequence_timeout leave all three as they were.
C22_MatcherFrame ==
    [][OtherOperation
         => UNCHANGED <<pending_keys, last_key_time, sequence_timeout>>]_vars


\* ------------------------------------------------------------------------
\* C23  Lazy timeout
\* ------------------------------------------------------------------------
\* The pending sequence has outlived the timeout.
Stale ==
    /\ IsSequencePending
    /\ last_key_time /= None
    /\ now - last_key_time[1] > sequence_timeout

\* C23: a step in which only time passes changes no field of the matcher, so
\* a pending sequence stays pending with the same buffer however long ago
\* its last key was; it is the next process call that finds the buffer it
\* was left with, sees it stale and drops it before appending its own key.
C23_LazyTimeout ==
    [][/\ now' /= now
          => /\ UNCHANGED <<bindings, pending_keys, last_key_time,
                            sequence_timeout>>
             /\ IsSequencePending' = IsSequencePending
       /\ (Stale /\ now' = now /\ op' = "process")
          => /\ call'.pre = pending_keys
             /\ call'.elapsed = Some(now - last_key_time[1])
             /\ call'.appended = <<call'.key>>]_vars

\* A sequence is still pending after more than the timeout has passed.
C23_Witness == Stale /\ op = "process" /\ call.result = Pending


\* ------------------------------------------------------------------------
\* C26  Unregistering the focused component
\* ------------------------------------------------------------------------
\* The id that follows the entry at pos in ring order, the first entry
\* following the last.
Follower(ring, pos) == ring.entries[((pos + 1) % Len(ring.entries)) + 1].id

\* C26: unregistering the focused component moves the focus to the
\* component that followed it in the ring, the first one if it was last, and
\* clears the focus if the ring becomes empty; unregistering any other
\* component leaves the focused component the same.
C26_UnregisterFocused ==
    [][\A id \in FocusIds :
         FocusRingUnregister(id)
           => LET focused == RingCurrent(focus_ring)
                  after == RingCurrent(focus_ring')
              IN  IF focused /= Some(id) THEN after = focused
                  ELSE IF Len(focus_ring.entries) = 1 THEN after = None
                  ELSE after = Some(Follower(focus_ring,
                                             focus_ring.current_index[1]))]_vars


\* ------------------------------------------------------------------------
\* C27  Focus order
\* ------------------------------------------------------------------------
\* The place of an id in a list of ids, counted from 0.
PlaceIn(ids, id) == CHOOSE i \in 0..(Len(ids) - 1) : ids[i + 1] = id

\* The entries are in ascending order of their order values, those of equal
\* order value in the order of the list of ids.
InFocusOrder(entries, ids) ==
    \A i, j \in 1..Len(entries) :
        i < j => \/ entries[i].order < entries[j].order
                 \/ /\ entries[i].order = entries[j].order
                    /\ PlaceIn(ids, entries[i].id) < PlaceIn(ids, entries[j].id)

\* C27: the entries of the ring are in ascending order of their order
\* values, those of equal order value in the order they were registered in
\* (whether a repeated register call counts as a registration or not), and
\* no id is in the ring twice.
C27_FocusOrder ==
    /\ \A i, j \in 1..Len(focus_ring.entries) :
          i < j => focus_ring.entries[i].id /= focus_ring.entries[j].id
    /\ \/ InFocusOrder(focus_ring.entries, registered)
       \/ InFocusOrder(focus_ring.entries, registered_last)


\* ------------------------------------------------------------------------
\* C24  Focus trap restoration
\* ------------------------------------------------------------------------
\* C24: when a trap is popped that has seen, since it was pushed, only
\* navigation and the pushing and popping of traps above it, current()
\* returns what it returned right before that trap was pushed.
C24_TrapRestoration ==
    [][(/\ FocusManagerPopTrap
        /\ pushed /= <<>>
        /\ pushed[Len(pushed)] /= None)
          => ManagerCurrent(focus_manager') = pushed[Len(pushed)][1]]_vars


\* ------------------------------------------------------------------------
\* C25  Focus trap containment
\* ------------------------------------------------------------------------
\* What the navigation and focus calls make of a manager.
AfterFocusCalls(manager) ==
    { Navigate(manager, direction).manager : direction \in Directions }
      \cup { FocusNext(manager).manager, FocusPrev(manager).manager,
             ManagerClearFocus(manager) }
      \cup { ManagerFocus(manager, id).manager : id \in ManagerIds }

\* Two managers differ in the ring of their topmost trap at most.
SameBelowTopTrap(m, n) ==
    /\ m.ring = n.ring
    /\ m.restoration_stack = n.restoration_stack
    /\ Len(m.traps) = Len(n.traps)
    /\ \A i \in 1..(Len(m.traps) - 1) : m.traps[i] = n.traps[i]
    /\ TopTrap(m).ring.entries = TopTrap(n).ring.entries

\* C25: while a trap is active, current() is None or an id registered in
\* the topmost trap, contains answers for the topmost trap, navigate,
\* focus_next, focus_prev, focus and clear_focus change nothing but the
\* focus of the topmost trap, and focus(id) for an id that is not in the
\* topmost trap returns false and leaves the manager as it was.
C25_TrapContainment ==
    HasTrap(focus_manager)
      => LET top == TopTrap(focus_manager).ring
             current == ManagerCurrent(focus_manager)
         IN  /\ current = None \/ RingContains(top, current[1])
             /\ \A id \in ManagerIds :
                   ManagerContains(focus_manager, id) = RingContains(top, id)
             /\ \A after \in AfterFocusCalls(focus_manager) :
                   /\ SameBelowTopTrap(focus_manager, after)
                   /\ \/ ManagerCurrent(after) = None
                      \/ RingContains(top, ManagerCurrent(after)[1])
             /\ \A id \in ManagerIds :
                   ~RingContains(top, id)
                     => ManagerFocus(focus_manager, id)
                          = ManagerCall(focus_manager, FALSE)

\* Inside the dialog, opened over another trap, the focus was moved to its
\* second component, while the page below has its own focus on b.
C25_Witness ==
    /\ Len(focus_manager.traps) = 2
    /\ ManagerCurrent(focus_manager) = Some("y")
    /\ RingCurrent(focus_manager.ring) = Some("b")
    /\ RingCurrent(focus_manager.traps[1].ring) = Some("a")


\* ------------------------------------------------------------------------
\* C28  Event loop exit
\* ------------------------------------------------------------------------
\* C28: the loop has returned once the handler has returned Exit or a
\* shutdown signal was received, so it waits for a next event only while
\* neither has happened, and it returns for no other reason.
C28_LoopExit ==
    /\ loop_pc = "select"
          => control /= Some("Exit") /\ signal /= "received"
    /\ loop_pc = "returned"
          => control = Some("Exit") \/ signal = "received"


\* ------------------------------------------------------------------------
\* C29  Debouncer
\* ------------------------------------------------------------------------
\* C29: should_process returns true only if the delay has passed since the
\* last event, where every call of should_process, allowed or blocked, is
\* an event that starts the delay anew.
C29_Debounce ==
    dcall.returned = Some(TRUE)
      => \/ dcall.previous = None
         \/ dcall.at - dcall.previous[1] >= dcall.delay


\* ------------------------------------------------------------------------
\* C30  TextInput maximum length
\* ------------------------------------------------------------------------
\* C30: with max_length = Some(n) the text never has more than n chars, and
\* an InsertChar or Paste that would take it beyond n leaves the input as it
\* is and returns no action.
C30_MaxLength ==
    text_input.max_length /= None
      => /\ CharCount(text_input.text) <= text_input.max_length[1]
         /\ \A msg \in Messages(MaxText) :
               (/\ msg.tag \in {"InsertChar", "Paste"}
                /\ CharCount(InsertTextUnlimited(text_input, msg.text).input.text)
                     > text_input.max_length[1])
                 => Update(text_input, msg) = Updated(text_input, None)

\* ------------------------------------------------------------------------
\* C31  The fallback restart retries the current key only
\* ------------------------------------------------------------------------
\* The attempt abandoned by the last process call held two or more pending
\* keys before the key of the call.
AbandonedLong == Processed /\ call.restarted /\ Len(call.appended) >= 3

\* The last two keys pressed.
LastTwo == SubSeq(call.appended, Len(call.appended) - 1, Len(call.appended))

ChordBindings == { RegisteredBinding(<<KeyCtrlX, KeyG, KeyCtrlS>>, "abc"),
                   RegisteredBinding(<<KeyG, KeyX>>, "bd") }

\* C31: when a pending buffer of two or more keys is abandoned by a key that
\* does not continue it, only that key is evaluated again: the matcher is
\* left idle or pending on that key alone, and a Matched result carries an
\* action registered for the key as a single-key sequence, never one that is
\* registered only for the last two keys pressed; with 'a b c' and 'b d'
\* registered the keys a, b, d end in NoMatch.
C31_NoSuffixRecovery ==
    /\ AbandonedLong =>
           /\ pending_keys \in {<<>>, <<call.key>>}
           /\ call.result.tag = "Matched" =>
                  call.result.action \in ActionsOf(<<call.key>>)
           /\ \A a \in ActionsOf(LastTwo) \ ActionsOf(<<call.key>>) :
                  call.result /= Matched(a)
    /\ (/\ Processed
        /\ ChordBindings \subseteq Registered
        /\ ActionsOf(<<KeyX>>) = {}
        /\ call.appended = <<KeyCtrlX, KeyG, KeyX>>) =>
           call.result = NoMatch /\ Idle

C31_Witness ==
    /\ AbandonedLong
    /\ ChordBindings \subseteq Registered
    /\ call.appended = <<KeyCtrlX, KeyG, KeyX>>
    /\ LastTwo = <<KeyG, KeyX>>
    /\ "bd" \in ActionsOf(LastTwo)
    /\ call.result = NoMatch
    /\ Idle

\* ------------------------------------------------------------------------
\* C32  The two states of the matcher
\* ------------------------------------------------------------------------
\* The matcher waits for the next key of a sequence.
InPending == pending_keys /= <<>> /\ last_key_time /= None

\* What process returns for the event on a matcher with these bindings, an
\* empty pending buffer and no last-event time.
FreshResult(bs, event) ==
    ProcessCall(bs, <<>>, None, 1, event, 0).result

\* What the next process call returns for the event.
NextResult(event) ==
    ProcessCall(bindings, pending_keys, last_key_time, sequence_timeout,
                event, now).result

\* The last process call found the matcher idle or dropped the pending keys
\* because the timeout had run out.
StartedFresh ==
    /\ Processed
    /\ \/ call.pre = <<>>
       \/ call.elapsed /= None /\ call.elapsed[1] > sequence_timeout

\* C32: between calls the matcher is idle (no pending key, no last-event
\* time) or pending (pending keys and a last-event time); process returns
\* Pending exactly when it leaves the matcher pending and Matched or NoMatch
\* exactly when it leaves it idle; and on an idle matcher, or on one whose
\* pending keys have timed out, the result of process is the one a matcher
\* with the same bindings and nothing pending returns for the event.
C32_TwoStates ==
    /\ Idle \/ InPending
    /\ Processed => (call.result = Pending <=> InPending)
    /\ Processed => (call.result.tag \in {"Matched", "NoMatch"} <=> Idle)
    /\ (Idle \/ Stale) =>
           \A event \in KeyEvents :
               NextResult(event) = FreshResult(bindings, event)
    /\ StartedFresh =>
           \E event \in KeyEvents :
               /\ call.key = WithMods(event.code, event.modifiers)
               /\ call.result = FreshResult(bindings, event)

C32_Witness ==
    /\ StartedFresh
    /\ call.pre = <<KeyG>>
    /\ call.key = KeyG
    /\ call.result = Pending
    /\ pending_keys = <<KeyG>>
    /\ last_key_time = Some(now)

\* ------------------------------------------------------------------------
\* C33  restore_focus
\* ------------------------------------------------------------------------
\* C33: restore_focus returns None exactly when the restoration stack is
\* empty, and when it returns Some(id) the focus is on id afterwards, also
\* when id was unregistered since it was saved or a trap is active.
C33_RestoreFocus ==
    [][FocusManagerRestoreFocus =>
          LET r == RestoreFocus(focus_manager)
          IN  /\ r.returned = None <=> focus_manager.restoration_stack = <<>>
              /\ r.returned /= None =>
                     ManagerCurrent(focus_manager') = r.returned]_vars

\* ------------------------------------------------------------------------
\* C34  The pending buffer
\* ------------------------------------------------------------------------
\* The length of the longest registered sequence, 0 without bindings.
RECURSIVE LongestOf(_)
LongestOf(bs) ==
    IF bs = <<>> THEN 0
    ELSE LET rest == LongestOf(Tail(bs))
         IN  IF Len(Head(bs).sequence) > rest THEN Len(Head(bs).sequence)
             ELSE rest

\* C34: whenever the matcher is pending between calls, whatever register,
\* clear_bindings, reset_sequence and process calls came before, the pending
\* buffer is a proper prefix of a registered sequence, and so shorter than
\* the longest registered sequence.
C34_PendingIsPrefix ==
    IsSequencePending =>
        /\ SomeLonger(pending_keys)
        /\ Len(pending_keys) < LongestOf(bindings)

C34_Witness ==
    /\ op = "register"
    /\ IsSequencePending
    /\ pending_keys = <<KeyCtrlX, KeyG>>
    /\ SomeLonger(pending_keys)
    /\ Len(bindings) = 2

\* ------------------------------------------------------------------------
\* C35  Soundness of Matched
\* ------------------------------------------------------------------------
\* The last process call returned Matched.
ReturnedMatched == Processed /\ call.result.tag = "Matched"

\* The actions registered.
RegisteredActions == { b.action : b \in Registered }

\* The index in hist of the first call of the last run of calls in which
\* every key came within the timeout of the one before.
RunStart ==
    CHOOSE i \in 1..Len(hist) :
        /\ i = 1 \/ ~hist[i].within
        /\ \A j \in (i + 1)..Len(hist) : hist[j].within

\* The keys processed since the matcher was last idle, each within the
\* timeout of the one before.
RunKeys == [i \in 1..(Len(hist) - RunStart + 1) |-> hist[RunStart + i - 1].key]

\* The keys processed since the matcher was last idle.
KeysSinceIdle == [i \in 1..Len(hist) |-> hist[i].key]

IsSuffix(s, t) ==
    Len(s) <= Len(t) /\ SubSeq(t, Len(t) - Len(s) + 1, Len(t)) = s

\* The pending buffer the last call started from, emptied if the timeout had
\* run out, with the key of the call appended.
BufferWithKey ==
    IF call.elapsed /= None /\ call.elapsed[1] > sequence_timeout
    THEN <<call.key>>
    ELSE Append(call.pre, call.key)

\* C35 as stated: process returns Matched(a) only if a is registered for a
\* sequence that equals all the keys processed since the matcher was last
\* idle, each within the timeout of the one before, or, after a fallback
\* restart, the current key alone; no unregistered action is returned.
C35_SoundMatched ==
    /\ ReturnedMatched => call.result.action \in RegisteredActions
    /\ (ReturnedMatched /\ hist /= <<>>) =>
           \/ call.result.action \in ActionsOf(RunKeys)
           \/ call.restarted /\ call.result.action \in ActionsOf(<<call.key>>)

\* C35 amended: process returns Matched(a) only if a is registered for a
\* sequence that equals the pending buffer the call started from, emptied if
\* the timeout had run out, with the current key appended, or, when the call
\* restarted, the current key alone; that sequence is a suffix of the keys
\* processed since the matcher was last idle; no unregistered action is
\* returned.
C35_SoundMatchedBuffer ==
    /\ ReturnedMatched => call.result.action \in RegisteredActions
    /\ ReturnedMatched =>
           /\ call.appended = BufferWithKey
           /\ IF call.restarted
              THEN call.result.action \in ActionsOf(<<call.key>>)
              ELSE call.result.action \in ActionsOf(call.appended)
    /\ (ReturnedMatched /\ hist /= <<>>) =>
           IsSuffix(call.appended, KeysSinceIdle)

\* A match of 'g g' by the keys Ctrl+x, g, g: the first g abandoned Ctrl+x
\* and stayed pending.
C35_Witness ==
    /\ ReturnedMatched
    /\ ~call.restarted
    /\ KeysSinceIdle = <<KeyCtrlX, KeyG, KeyG>>
    /\ RunKeys = KeysSinceIdle
    /\ call.appended = <<KeyG, KeyG>>
    /\ call.result.action \in ActionsOf(<<KeyG, KeyG>>)

\* ------------------------------------------------------------------------
\* C36  Shadowed bindings
\* ------------------------------------------------------------------------
\* The registered sequence s is a proper prefix of another registered one.
Shadowed(s) == SomeEqual(s) /\ SomeLonger(s)

\* The buffer the last process call looked up last: the key alone after a
\* restart, else the pending keys with the key appended.
Evaluated == IF call.restarted THEN <<call.key>> ELSE call.appended

\* What the next process call does with the event.
NextCall(event) ==
    ProcessCall(bindings, pending_keys, last_key_time, sequence_timeout,
                event, now)

\* C36: a registered sequence S that is a proper prefix of another registered
\* sequence is never matched: every call that completes the keys of S
\* returns Pending with S pending, no call returns Matched through S (with
\* 'g' and 'g g' registered single_g is never returned), and the next call
\* extends the pending keys by its key, unless the timeout has run out and it
\* drops them, and then keeps, matches or abandons the extended buffer.
C36_ShadowedUnreachable ==
    /\ (Processed /\ Shadowed(Evaluated)) =>
           /\ call.result = Pending
           /\ pending_keys = Evaluated
    /\ ReturnedMatched => ~SomeLonger(Evaluated)
    /\ (Processed /\ GBindings \subseteq Registered) =>
           call.result /= Matched("single_g")
    /\ (IsSequencePending /\ Shadowed(pending_keys)) =>
           \A event \in KeyEvents :
               LET key == WithMods(event.code, event.modifiers)
                   r == NextCall(event)
               IN  IF Stale
                   THEN r.appended = <<key>>
                   ELSE /\ r.appended = Append(pending_keys, key)
                        /\ \/ r.result = Pending /\ r.pending_keys = r.appended
                           \/ /\ r.result.tag = "Matched"
                              /\ ~r.restarted
                              /\ r.result.action \in ActionsOf(r.appended)
                           \/ r.restarted

C36_Witness ==
    /\ Processed
    /\ Registered = GBindings
    /\ Evaluated = <<KeyG>>
    /\ Shadowed(Evaluated)
    /\ "single_g" \in ActionsOf(Evaluated)
    /\ call.result = Pending
    /\ pending_keys = <<KeyG>>

\* ------------------------------------------------------------------------
\* C37  Consistency of the DispatchResult
\* ------------------------------------------------------------------------
\* The handler calls of the dispatch that returned Handled.
HandledCalls == { i \in 1..Len(Handles) : Handles[i].result = "Handled" }

\* The first handler call, in call order, that returned Handled.
FirstHandled == Handles[CHOOSE i \in HandledCalls : \A j \in HandledCalls : i <= j]

\* C37: in the result of every dispatch (dispatch_async returns the result
\* of dispatch) and dispatch_to_path, result = Handled, handled_by set,
\* handled_in set and propagation_stopped are equivalent; a dispatch that is
\* not handled reports Ignored, never Continue, whatever the handlers
\* returned; and handled_by and handled_in are the id and the phase of the
\* first handler call that returned Handled.
C37_ResultConsistency ==
    Dispatched =>
        /\ dresult.result \in {"Handled", "Ignored"}
        /\ (dresult.result = "Handled") = (dresult.handled_by /= None)
        /\ (dresult.result = "Handled") = (dresult.handled_in /= None)
        /\ (dresult.result = "Handled") = dresult.propagation_stopped
        /\ WasHandled(dresult) = (HandledCalls /= {})
        /\ HandledCalls /= {} =>
               /\ dresult.handled_by = Some(FirstHandled.id)
               /\ dresult.handled_in = Some(FirstHandled.phase)

\* Nobody handled the action, the handlers answered Continue in Capture and
\* Ignored in Bubble, and the dispatch reports Ignored.
C37_Witness ==
    /\ Dispatched
    /\ dresult = NotHandled
    /\ Len(Handles) >= 4
    /\ \E i \in 1..Len(Handles) : Handles[i].result = "Continue"
    /\ \E i \in 1..Len(Handles) : Handles[i].result = "Ignored"

\* ------------------------------------------------------------------------
\* C38  The handlers a dispatch calls
\* ------------------------------------------------------------------------
\* The handler with this id lies on the path of the dispatch: the id is the
\* position of a node that the indices of the path lead to.
OnPath(id) == \E d \in 0..dargs.valid : id = PathNode(d)

\* The phases of the handler calls, in call order.
CallPhases == [i \in 1..Len(Handles) |-> Handles[i].phase]

\* C38: during one dispatch handle is called only on the root and the nodes
\* the path indices lead to, never on a handler off the path; no handler is
\* called twice in the same phase; every Capture call comes before every
\* Bubble call; and a dispatch on a tree without a focused node calls the
\* root only, in Capture and then, unless that call handled the action, in
\* Bubble.
C38_CallFootprint ==
    Dispatched =>
        /\ \A i \in 1..Len(Handles) : OnPath(Handles[i].id)
        /\ \A i, j \in 1..Len(Handles) :
               (i /= j /\ Handles[i].id = Handles[j].id) =>
                   Handles[i].phase /= Handles[j].phase
        /\ \A i, j \in 1..Len(Handles) :
               (Handles[i].phase = "Capture" /\ Handles[j].phase = "Bubble") =>
                   i < j
        /\ (rop = "dispatch" /\ dargs.found = None) =>
               /\ \A i \in 1..Len(Handles) : Handles[i].id = <<>>
               /\ CallPhases = IF Stopped THEN <<>>
                               ELSE IF CaptureHandled THEN <<"Capture">>
                               ELSE <<"Capture", "Bubble">>

\* A dispatch down to the second child of the root, the first child off the
\* path, that nobody handled.
C38_Witness ==
    /\ rop = "dispatch"
    /\ dargs.path = <<1>>
    /\ Len(dargs.root.children) = 2
    /\ [i \in 1..Len(Handles) |-> Handles[i].id] = << <<>>, <<1>>, <<1>>, <<>> >>
    /\ CallPhases = <<"Capture", "Capture", "Bubble", "Bubble">>

====
